---- MODULE Spec2Model ----
(***************************************************************************)
(* Light-tree sampling of the Cycles kernel                                *)
(* (intern/cycles/kernel/light/light_tree.h): the importance estimator,    *)
(* the stochastic tree sampler, the distant-light sampler and the          *)
(* top-level dispatcher light_tree_sample_from_position.                   *)
(*                                                                         *)
(* Arithmetic.  A float is a pair <<m, e>>: the value m * 2^e with m odd   *)
(* and |m| < 2^24, <<0, 0>> for zero, and the IEEE specials at e = 128     *)
(* (<<0, 128>> is NaN, <<1, 128>> is +inf, <<-1, 128>> is -inf).  Every    *)
(* operation rounds its exact result to the nearest float, ties to even,   *)
(* as IEEE 754 binary32 does, and follows IEEE 754 on the specials: x/0    *)
(* is an infinity, 0/0 and 0*inf are NaN, every comparison with NaN is     *)
(* false.  The sign of zero and the subnormal range are not modelled.      *)
(*                                                                         *)
(* Geometry.  A float3 is a triple of floats.  Angles are measured in      *)
(* quarter turns (pi/2), so that acos and cos are exact on the directions  *)
(* used: every box is a segment on a coordinate axis through P.            *)
(***************************************************************************)
EXTENDS Integers, Sequences, FiniteSets, TLC

\* ------------------------------------------------------------------ floats

Abs(n) == IF n < 0 THEN -n ELSE n

Sign(n) == IF n < 0 THEN -1 ELSE IF n = 0 THEN 0 ELSE 1

\* The significand of a float has 24 bits; an exponent of 128 marks the specials.
MantissaBits == 24

InfExp == 128

NaN == <<0, InfExp>>

PInf == <<1, InfExp>>

NInf == <<-1, InfExp>>

IsNaN(x) == x = NaN

IsInf(x) == x[2] = InfExp /\ x[1] # 0

IsFinite(x) == x[2] # InfExp

\* The number of bits of n >= 0.
RECURSIVE BitLen(_)
BitLen(n) == IF n = 0 THEN 0 ELSE 1 + BitLen(n \div 2)

\* m * 2^e in its one representation: m odd, or <<0, 0>>.
RECURSIVE Pack(_, _)
Pack(m, e) ==
  IF m = 0 THEN <<0, 0>>
  ELSE IF m % 2 = 0 THEN Pack(m \div 2, e + 1)
  ELSE <<m, e>>

\* Ties to even: the quotient q with remainder r against half a unit.
RoundUp(q, r, half, sticky) ==
  IF r > half \/ (r = half /\ (sticky \/ q % 2 = 1)) THEN q + 1 ELSE q

\* A value of 2^128 or more becomes an infinity.
Saturate(sign, x) == IF BitLen(Abs(x[1])) + x[2] > InfExp THEN <<sign, InfExp>> ELSE x

\* Round, where m has k bits more than a significand holds.
RoundAt(sign, m, e, sticky, k) ==
  IF k <= 0 THEN Pack(sign * m, e)
  ELSE Saturate(sign, Pack(sign * RoundUp(m \div (2 ^ k), m % (2 ^ k), 2 ^ (k - 1), sticky),
                           e + k))

\* The float nearest to sign * (m + s) * 2^e, ties to even, where 0 < s < 1 when
\* sticky and s = 0 otherwise; with sticky, m has at least 26 bits.
Round(sign, m, e, sticky) == RoundAt(sign, m, e, sticky, BitLen(m) - MantissaBits)

\* The float of the integer n, and n * 2^e.
F(n) == Round(Sign(n), Abs(n), 0, FALSE)

Ldexp(n, e) == Round(Sign(n), Abs(n), e, FALSE)

\* H * 2^24 + L cut to its leading 30 bits, the bits below them sticky.
MulCut(sign, H, L, e, shift) ==
  Round(sign, H * (2 ^ (24 - shift)) + (L \div (2 ^ shift)), e + shift, L % (2 ^ shift) # 0)

\* The product a1 * b1 * 2^24 + cross * 2^12 + t of 12-bit limbs as H * 2^24 + L.
MulWide(sign, hi, cross, t, e) ==
  MulCut(sign, hi + (cross \div 4096) + (t \div 16777216), t % 16777216, e,
         BitLen(hi + (cross \div 4096) + (t \div 16777216)) - 6)

MulLimbs(sign, a1, a0, b1, b0, e) ==
  MulWide(sign, a1 * b1, a1 * b0 + a0 * b1, ((a1 * b0 + a0 * b1) % 4096) * 4096 + a0 * b0, e)

\* a * b * 2^e for significands a, b > 0: a product of more than 31 bits is
\* formed from 12-bit limbs.
MulMagnitude(sign, a, b, e) ==
  IF BitLen(a) + BitLen(b) <= 31 THEN Round(sign, a * b, e, FALSE)
  ELSE MulLimbs(sign, a \div 4096, a % 4096, b \div 4096, b % 4096, e)

\* Long division by b: from the quotient q of n bits after the point and the
\* remainder r < b to <<q, r, n>> with q of 26 bits, or with r = 0.
RECURSIVE DivBits(_, _, _, _)
DivBits(q, r, b, n) ==
  IF r = 0 \/ BitLen(q) >= 26 THEN <<q, r, n>>
  ELSE IF 2 * r >= b THEN DivBits(2 * q + 1, 2 * r - b, b, n + 1)
  ELSE DivBits(2 * q, 2 * r, b, n + 1)

\* The float of the digits d = <<q, r, n>>: (q + s) * 2^(e - n), s > 0 iff r > 0.
RoundDigits(sign, d, e) == Round(sign, d[1], e - d[3], d[2] # 0)

DivMagnitude(sign, a, b, e) == RoundDigits(sign, DivBits(a \div b, a % b, b, 0), e)

\* A * 2^e + b, where b is the part of the smaller operand that reaches the 30
\* bits of A and the bits below them are sticky.
AddSticky(sign, A, B, same, e) == Round(sign, IF same THEN A + B ELSE A - B - 1, e, TRUE)

\* a + b where a is s binary places above b and a[1] has la bits: exact when the
\* aligned sum has at most 31 bits; else a takes 30 bits.
AddShifted(a, b, s, la) ==
  IF la + s <= 30
  THEN Round(Sign(a[1] * (2 ^ s) + b[1]), Abs(a[1] * (2 ^ s) + b[1]), b[2], FALSE)
  ELSE AddSticky(Sign(a[1]), Abs(a[1]) * (2 ^ (30 - la)),
                 IF s - (30 - la) > MantissaBits THEN 0
                 ELSE Abs(b[1]) \div (2 ^ (s - (30 - la))),
                 Sign(a[1]) = Sign(b[1]), a[2] - (30 - la))

\* a + b for finite non-zero a, b with a[2] >= b[2].
AddAligned(a, b) == AddShifted(a, b, a[2] - b[2], BitLen(Abs(a[1])))

\* Floats and float3s.  The operations are functions: an operand is evaluated
\* once, as the value passed to a C function is.
Float == Int \X Int

Float3 == Float \X Float \X Float

FNeg[a \in Float] == <<-a[1], a[2]>>

FAdd[a \in Float, b \in Float] ==
  IF IsNaN(a) \/ IsNaN(b) THEN NaN
  ELSE IF IsInf(a) THEN (IF IsInf(b) /\ b # a THEN NaN ELSE a)
  ELSE IF IsInf(b) THEN b
  ELSE IF a[1] = 0 THEN b
  ELSE IF b[1] = 0 THEN a
  ELSE AddAligned(IF a[2] >= b[2] THEN a ELSE b, IF a[2] >= b[2] THEN b ELSE a)

FSub[a \in Float, b \in Float] == FAdd[a, FNeg[b]]

FMul[a \in Float, b \in Float] ==
  IF IsNaN(a) \/ IsNaN(b) THEN NaN
  ELSE IF IsInf(a) \/ IsInf(b)
       THEN (IF a[1] = 0 \/ b[1] = 0 THEN NaN ELSE <<Sign(a[1]) * Sign(b[1]), InfExp>>)
  ELSE IF a[1] = 0 \/ b[1] = 0 THEN <<0, 0>>
  ELSE MulMagnitude(Sign(a[1]) * Sign(b[1]), Abs(a[1]), Abs(b[1]), a[2] + b[2])

FDiv[a \in Float, b \in Float] ==
  IF IsNaN(a) \/ IsNaN(b) THEN NaN
  ELSE IF IsInf(b) THEN (IF IsInf(a) THEN NaN ELSE <<0, 0>>)
  ELSE IF b[1] = 0 THEN (IF a[1] = 0 THEN NaN ELSE <<Sign(a[1]), InfExp>>)
  ELSE IF IsInf(a) THEN <<Sign(a[1]) * Sign(b[1]), InfExp>>
  ELSE IF a[1] = 0 THEN <<0, 0>>
  ELSE DivMagnitude(Sign(a[1]) * Sign(b[1]), Abs(a[1]), Abs(b[1]), a[2] - b[2])

FLt[a \in Float, b \in Float] ==
  IF IsNaN(a) \/ IsNaN(b) \/ a = b THEN FALSE
  ELSE IF a = PInf \/ b = NInf THEN FALSE
  ELSE IF a = NInf \/ b = PInf THEN TRUE
  ELSE FSub[a, b][1] < 0

FEq[a \in Float, b \in Float] == ~IsNaN(a) /\ ~IsNaN(b) /\ a = b

FGe[a \in Float, b \in Float] == FLt[b, a] \/ FEq[a, b]

FGt[a \in Float, b \in Float] == FLt[b, a]

fmaxf[a \in Float, b \in Float] == IF IsNaN(a) THEN b ELSE IF IsNaN(b) THEN a ELSE IF FLt[a, b] THEN b ELSE a

fminf[a \in Float, b \in Float] == IF IsNaN(a) THEN b ELSE IF IsNaN(b) THEN a ELSE IF FLt[b, a] THEN b ELSE a

fabsf[a \in Float] == <<Abs(a[1]), a[2]>>

\* The largest r in lo..hi with r * r <= n.
RECURSIVE FloorSqrt(_, _, _)
FloorSqrt(n, lo, hi) ==
  IF lo = hi THEN lo
  ELSE LET mid == (lo + hi + 1) \div 2
       IN IF mid * mid <= n THEN FloorSqrt(n, mid, hi) ELSE FloorSqrt(n, lo, mid - 1)

\* The square root digit by digit: from the root and the remainder to
\* <<root, rem, n>> with a root of 26 bits, n of them after the point, or rem = 0.
RECURSIVE SqrtBits(_, _, _)
SqrtBits(root, rem, n) ==
  IF rem = 0 \/ BitLen(root) >= 26 THEN <<root, rem, n>>
  ELSE IF 4 * rem >= 4 * root + 1 THEN SqrtBits(2 * root + 1, 4 * rem - (4 * root + 1), n + 1)
  ELSE SqrtBits(2 * root, 4 * rem, n + 1)

\* The root of m * 2^e, e even, from r = FloorSqrt(m).
SqrtMagnitude(m, e, r) == RoundDigits(1, SqrtBits(r, m - r * r, 0), e \div 2)

sqrtf[a \in Float] ==
  IF IsNaN(a) \/ a[1] < 0 THEN NaN
  ELSE IF IsInf(a) \/ a[1] = 0 THEN a
  ELSE IF a[2] % 2 = 0 THEN SqrtMagnitude(a[1], a[2], FloorSqrt(a[1], 0, 5792))
  ELSE SqrtMagnitude(2 * a[1], a[2] - 1, FloorSqrt(2 * a[1], 0, 5792))

\* The value of a float that is a whole number.
IsWhole(t) == IsFinite(t) /\ t[2] >= 0

Whole(t) == t[1] * (2 ^ t[2])

\* acos of the cosines 1, 0, -1, in quarter turns.
fast_acosf[c \in Float] ==
  IF IsNaN(c) THEN NaN
  ELSE CASE c = F(1) -> F(0)
         [] c = F(0) -> F(1)
         [] c = F(-1) -> F(2)

\* cos of a whole number of quarter turns.
fast_cosf[t \in Float] ==
  IF ~IsFinite(t) THEN NaN
  ELSE CASE IsWhole(t) /\ Abs(Whole(t)) % 4 = 0 -> F(1)
         [] IsWhole(t) /\ Abs(Whole(t)) % 4 = 2 -> F(-1)
         [] IsWhole(t) /\ Abs(Whole(t)) % 2 = 1 -> F(0)

\* ------------------------------------------------------------------ float3

make_float3(x, y, z) == <<x, y, z>>

V3(x, y, z) == <<F(x), F(y), F(z)>>

V3Add[a \in Float3, b \in Float3] == <<FAdd[a[1], b[1]], FAdd[a[2], b[2]], FAdd[a[3], b[3]]>>

V3Sub[a \in Float3, b \in Float3] == <<FSub[a[1], b[1]], FSub[a[2], b[2]], FSub[a[3], b[3]]>>

V3Neg[a \in Float3] == <<FNeg[a[1]], FNeg[a[2]], FNeg[a[3]]>>

V3Scale[s \in Float, a \in Float3] == <<FMul[s, a[1]], FMul[s, a[2]], FMul[s, a[3]]>>

dot[a \in Float3, b \in Float3] == FAdd[FAdd[FMul[a[1], b[1]], FMul[a[2], b[2]]], FMul[a[3], b[3]]]

len_squared[a \in Float3] == dot[a, a]

V3Div[a \in Float3, l \in Float] == <<FDiv[a[1], l], FDiv[a[2], l], FDiv[a[3], l]>>

\* normalize[a] = a / len(a): the zero vector gives NaN components.
normalize[a \in Float3] == V3Div[a, sqrtf[len_squared[a]]]

\* ------------------------------------------------- importance estimator

\* The eight corners of the bounding box, in the order of corners[0..7].
BoxCorners(bbox_min, bbox_max) ==
  << bbox_min,
     make_float3(bbox_min[1], bbox_min[2], bbox_max[3]),
     make_float3(bbox_min[1], bbox_max[2], bbox_min[3]),
     make_float3(bbox_min[1], bbox_max[2], bbox_max[3]),
     make_float3(bbox_max[1], bbox_min[2], bbox_min[3]),
     make_float3(bbox_max[1], bbox_min[2], bbox_max[3]),
     make_float3(bbox_max[1], bbox_max[2], bbox_min[3]),
     bbox_max >>

\* Lines 24-26: the angle between the centroid and one corner, seen from P.
CornerAngle[corner \in Float3, P \in Float3, point_to_centroid \in Float3] ==
  fast_acosf[dot[point_to_centroid, normalize[V3Sub[corner, P]]]]

RECURSIVE BoxAngleLoop(_, _, _, _, _)
BoxAngleLoop(corners, P, point_to_centroid, i, theta_u) ==
  IF i > Len(corners) THEN theta_u
  ELSE BoxAngleLoop(corners, P, point_to_centroid, i + 1,
                    fmaxf[CornerAngle[corners[i], P, point_to_centroid], theta_u])

light_tree_bounding_box_angle(bbox_min, bbox_max, P, point_to_centroid) ==
  BoxAngleLoop(BoxCorners(bbox_min, bbox_max), P, point_to_centroid, 1, F(0))

\* Lines 63-72: cos_theta_i_prime, f_a = 1 and the importance.
ImportanceValue[theta_i_u, theta_prime, distance_squared, energy \in Float] ==
  FMul[FDiv[FMul[FMul[F(1), IF FGt[theta_i_u, F(0)] THEN fabsf[fast_cosf[theta_i_u]]
                            ELSE F(1)],
                 energy],
            distance_squared],
       fast_cosf[theta_prime]]

\* Lines 57-60: theta_prime, and the return of 0 beyond theta_e.
ImportanceInCone[theta_i_u, theta_prime, distance_squared, theta_e, energy \in Float] ==
  IF FGe[theta_prime, theta_e] THEN F(0)
  ELSE ImportanceValue[theta_i_u, theta_prime, distance_squared, energy]

ImportanceAtAngles[theta, theta_i, theta_u, distance_squared, theta_o, theta_e, energy \in Float] ==
  ImportanceInCone[FSub[theta_i, theta_u], fmaxf[FSub[FSub[theta, theta_o], theta_u], F(0)],
                   distance_squared, theta_e, energy]

\* The clamp of lines 48-49: a quarter of the squared half diagonal of the box.
DistanceClamp[bbox_max, centroid \in Float3] ==
  FMul[Ldexp(1, -2), len_squared[V3Sub[bbox_max, centroid]]]

\* Lines 48-49: distance_squared, the divisor of line 71.
NodeDistanceSquared[P, bbox_max, centroid \in Float3] ==
  fminf[len_squared[V3Sub[centroid, P]], DistanceClamp[bbox_max, centroid]]

\* Lines 50-53: the angles theta, theta_i, theta_u.
ImportanceToward[P, N, bbox_min, bbox_max, bcone_axis \in Float3, theta_o, theta_e, energy \in Float, centroid, point_to_centroid \in Float3] ==
  ImportanceAtAngles[fast_acosf[dot[bcone_axis, V3Neg[point_to_centroid]]],
                     fast_acosf[dot[point_to_centroid, N]],
                     light_tree_bounding_box_angle(bbox_min, bbox_max, P, point_to_centroid),
                     NodeDistanceSquared[P, bbox_max, centroid],
                     theta_o, theta_e, energy]

\* Line 44: point_to_centroid.
ImportanceAtCentroid[P, N, bbox_min, bbox_max, bcone_axis \in Float3, theta_o, theta_e, energy \in Float, centroid \in Float3] ==
  ImportanceToward[P, N, bbox_min, bbox_max, bcone_axis, theta_o, theta_e, energy, centroid,
                   normalize[V3Sub[centroid, P]]]

NodeImportanceNoCutoff(P, N, bbox_min, bbox_max, bcone_axis, theta_o, theta_e, energy) ==
  ImportanceAtCentroid[P, N, bbox_min, bbox_max, bcone_axis, theta_o, PInf, energy,
                       V3Add[V3Scale[Ldexp(1, -1), bbox_min], V3Scale[Ldexp(1, -1), bbox_max]]]

\* Line 43: the centroid; each later value of the function is computed once,
\* from the values before it.
light_tree_node_importance(P, N, bbox_min, bbox_max, bcone_axis, theta_o, theta_e, energy) ==
  ImportanceAtCentroid[P, N, bbox_min, bbox_max, bcone_axis, theta_o, theta_e, energy,
                       V3Add[V3Scale[Ldexp(1, -1), bbox_min], V3Scale[Ldexp(1, -1), bbox_max]]]

\* ------------------------------------------------------------------ scene

\* Bounds of the model.
MaxEmitters == 2

MaxDistant == 1

\* Energies of the records.  41 is the least whole number x with x * (1 / x) # 1
\* in float arithmetic.
Energies == {0, 1, 41}

\* Energies of the distant lights.
DistantEnergies == {0, 41}

\* The largest float below 1.
OneBelow == Ldexp(2 ^ MantissaBits - 1, -MantissaBits)

\* The largest float below the finite float x > 0.
Below(x) ==
  IF x[1] = 1 THEN Pack(2 ^ MantissaBits - 1, x[2] - MantissaBits)
  ELSE Pack(x[1] * (2 ^ (MantissaBits - BitLen(x[1]))) - 1,
            x[2] - (MantissaBits - BitLen(x[1])))

\* The uniform random numbers in [0, 1): the least, the middle and the largest.
Uniform == {F(0), Ldexp(1, -1), OneBelow}

\* The shading point and its normal.
ShadingP == V3(0, 0, 0)

ShadingN == V3(1, 0, 0)

\* A record of the emitter table: a box on the x axis in front of the shading
\* point, its cone turned towards the shading point.
Emitter(e) ==
  [bounding_box_min |-> V3(2, 0, 0), bounding_box_max |-> V3(6, 0, 0),
   bounding_cone_axis |-> V3(-1, 0, 0), theta_o |-> F(0), theta_e |-> F(1),
   energy |-> F(e)]

\* A record of the node table: the same descriptor, child_index and num_prims.
Node(e, child_index, num_prims) ==
  [bounding_box_min |-> V3(2, 0, 0), bounding_box_max |-> V3(6, 0, 0),
   bounding_cone_axis |-> V3(-1, 0, 0), theta_o |-> F(0), theta_e |-> F(1),
   energy |-> F(e), child_index |-> child_index, num_prims |-> num_prims]

Distant(e, i) == [energy |-> F(e), prim_id |-> -i - 1]

\* The sum of the energies en[lo..hi]: the energy of the cluster that
\* aggregates these emitters.
RECURSIVE SumEnergy(_, _, _)
SumEnergy(en, lo, hi) == IF lo > hi THEN 0 ELSE en[lo] + SumEnergy(en, lo + 1, hi)

EmitterTable(en, n) == [i \in 0..(n - 1) |-> Emitter(en[i])]

\* The tables of a tree in pre-order: a root that is a leaf of n emitters.
LeafTrees ==
  UNION {{[nodes |-> [i \in 0..0 |-> Node(SumEnergy(en, 0, n - 1), 0, n)],
           emitters |-> EmitterTable(en, n)] : en \in [0..(n - 1) -> Energies]} :
         n \in 1..MaxEmitters}

\* A root with a left leaf of ab[1] and a right leaf of ab[2] emitters.
SplitTrees ==
  UNION {{[nodes |-> [i \in 0..2 |->
                        IF i = 0 THEN Node(SumEnergy(en, 0, ab[1] + ab[2] - 1), 2, 0)
                        ELSE IF i = 1 THEN Node(SumEnergy(en, 0, ab[1] - 1), 0, ab[1])
                        ELSE Node(SumEnergy(en, ab[1], ab[1] + ab[2] - 1), -ab[1], ab[2])],
           emitters |-> EmitterTable(en, ab[1] + ab[2])] :
          en \in [0..(ab[1] + ab[2] - 1) -> Energies]} :
         ab \in {x \in (1..MaxEmitters) \X (1..MaxEmitters) : x[1] + x[2] <= MaxEmitters}}

NoTree == [nodes |-> <<>>, emitters |-> <<>>]

Trees == {NoTree} \cup LeafTrees \cup SplitTrees

DistantTables ==
  UNION {{[i \in 0..(k - 1) |-> Distant(en[i], i)] : en \in [0..(k - 1) -> DistantEnergies]} :
         k \in 0..MaxDistant}

TableLen(t) == Cardinality(DOMAIN t)

\* kernel_data and the tables behind kernel_data_fetch.  num_distribution counts
\* the tree's emitters and the distant lights.
KernelData ==
  {[light_tree_nodes |-> tree.nodes,
    light_tree_emitters |-> tree.emitters,
    light_tree_distant_group |-> distant,
    integrator |-> [num_distant_lights |-> TableLen(distant),
                    num_distribution |-> TableLen(tree.emitters) + TableLen(distant)]] :
   tree \in Trees, distant \in DistantTables}

\* ------------------------------------------- the estimator on the tables

light_tree_emitter_importance(kg, P, N, emitter_index) ==
  LET kemitter == kg.light_tree_emitters[emitter_index]
      bbox_min == make_float3(kemitter.bounding_box_min[1], kemitter.bounding_box_min[2],
                              kemitter.bounding_box_min[3])
      bbox_max == make_float3(kemitter.bounding_box_max[1], kemitter.bounding_box_max[2],
                              kemitter.bounding_box_max[3])
      bcone_axis == make_float3(kemitter.bounding_cone_axis[1], kemitter.bounding_cone_axis[2],
                                kemitter.bounding_cone_axis[3])
  IN light_tree_node_importance(P, N, bbox_min, bbox_max, bcone_axis,
                                kemitter.theta_o, kemitter.theta_e, kemitter.energy)

\* The third component of the cone axis is read from slot [1] of the C array
\* (slot 2 of the triple), as on line 109.
light_tree_cluster_importance(kg, P, N, knode) ==
  LET bbox_min == make_float3(knode.bounding_box_min[1], knode.bounding_box_min[2],
                              knode.bounding_box_min[3])
      bbox_max == make_float3(knode.bounding_box_max[1], knode.bounding_box_max[2],
                              knode.bounding_box_max[3])
      bcone_axis == make_float3(knode.bounding_cone_axis[1], knode.bounding_cone_axis[2],
                                knode.bounding_cone_axis[2])
  IN light_tree_node_importance(P, N, bbox_min, bbox_max, bcone_axis,
                                knode.theta_o, knode.theta_e, knode.energy)

light_tree_distant_light_importance(kg, P, N, index) ==
  kg.light_tree_distant_group[index].energy

\* The light_distribution entries a leaf's emitter can resolve to: a mesh-light
\* triangle (prim >= 0) of object 0 or 1, or a lamp (prim < 0).
Distributions ==
  {[prim |-> 0, object_id |-> 0, shader_flag |-> {"SHADER_USE_MIS"}],
   [prim |-> 0, object_id |-> 1, shader_flag |-> {"SHADER_USE_MIS"}],
   [prim |-> -1, object_id |-> 0, shader_flag |-> {}]}

\* object_flag: object 1 is a shadow catcher, object 0 is not.
ObjectFlag(object) == IF object = 1 THEN {"SD_OBJECT_SHADOW_CATCHER"} ELSE {}

PathFlags == {{}, {"PATH_RAY_SHADOW_CATCHER_PASS"}}

\* What the caller's LightSample holds on entry.
CallerSamples == {[pdf |-> F(2), shader |-> {}]}

\* What triangle_light_sample writes to the sample.
TriangleSamples == {[pdf |-> F(0), shader |-> {"SHADER_SURFACE"}],
                    [pdf |-> F(1), shader |-> {"SHADER_SURFACE"}]}

\* What light_sample writes to the sample and returns.
LightSamples == {[ok |-> FALSE, ls |-> [pdf |-> F(0), shader |-> {"SHADER_LAMP"}]],
                 [ok |-> TRUE, ls |-> [pdf |-> F(1), shader |-> {"SHADER_LAMP"}]]}

\* ------------------------------------------------------------------ state

VARIABLES
  kernel_data,             \* the scene: tables and counts, read-only
  importance,              \* the estimator's value for each node and emitter of the scene
  randu,                   \* the caller's first random number
  path_flag,               \* the caller's path flags
  ls,                      \* the caller's LightSample
  pc,                      \* the position of the call
  branch,                  \* the dispatcher's branch: tree, distant, mix_tree, mix_distant
  mix_importance,          \* mixed branch: the importance of the tree and of the distant lights
  light_tree_probability,  \* mixed branch: the probability of the tree
  index,                   \* light_tree_sample: the current node
  tree_u,                  \* the sub-sampler's random number
  total_importance,        \* the total importance of the leaf or of the distant lights
  pdf_factor,              \* the dispatcher's pdf_factor, written through the pointer
  ret,                     \* the value returned by the sub-sampler
  selected,                \* the emitter or distant light the CDF walk selected, or -1
  kdistribution,           \* the light_distribution entry of the selected emitter
  at_return,               \* pdf_factor and ls when the sub-sampler returned
  trace,                   \* history: the calls and steps made, in order
  reads,                   \* history: the table entries fetched
  external,                \* history: what the external samplers and predicates returned
  call,                    \* a function called on its own: its arguments
  result,                  \* a function called on its own: the value it returned
  headers_,                \* a pass: the headers of its recorded commands
  commands_,               \* a pass: its recorded commands
  draw_commands_buf_       \* a pass: its DrawMultiBuf

vars == <<kernel_data, importance, randu, path_flag, ls, pc, branch, mix_importance,
          light_tree_probability, index, tree_u, total_importance, pdf_factor, ret, selected,
          kdistribution, at_return, trace, reads, external, call, result, headers_, commands_,
          draw_commands_buf_>>

Unset == <<>>

\* The variables of a pass, and their value while no pass records.
pass == <<headers_, commands_, draw_commands_buf_>>

NoPass == headers_ = Unset /\ commands_ = Unset /\ draw_commands_buf_ = Unset

\* The estimator is a pure function of the shading point and the read-only
\* tables: its value for every node and emitter of the scene.
SceneImportance(kg, P, N) ==
  [nodes |-> [i \in DOMAIN kg.light_tree_nodes |->
                light_tree_cluster_importance(kg, P, N, kg.light_tree_nodes[i])],
   emitters |-> [i \in DOMAIN kg.light_tree_emitters |->
                   light_tree_emitter_importance(kg, P, N, i)]]

\* The value of light_tree_cluster_importance(kg, P, N, &light_tree_nodes[i]) and
\* of light_tree_emitter_importance(kg, P, N, i) in a call at the shading point.
ClusterImportance(i) == importance.nodes[i]

EmitterImportance(i) == importance.emitters[i]

Init ==
  /\ kernel_data \in {kd \in KernelData : kd.integrator.num_distribution > 0}
  /\ importance = SceneImportance(kernel_data, ShadingP, ShadingN)
  /\ randu \in Uniform
  /\ path_flag \in PathFlags
  /\ ls \in CallerSamples
  /\ pc = "start"
  /\ branch = "none"
  /\ mix_importance = Unset
  /\ light_tree_probability = Unset
  /\ index = 0
  /\ tree_u = Unset
  /\ total_importance = Unset
  /\ pdf_factor = Unset
  /\ ret = FALSE
  /\ selected = -1
  /\ kdistribution = Unset
  /\ at_return = Unset
  /\ trace = <<>>
  /\ reads = {}
  /\ external = Unset
  /\ call = Unset
  /\ result = Unset
  /\ NoPass

\* ------------------------------------------------------------- dispatcher

\* kernel_data_fetch(light_tree_distant_group, index).energy: an index outside
\* the table reads whatever lies behind it.
DistantImportanceFetch(kg, P, N, i) ==
  IF i \in DOMAIN kg.light_tree_distant_group
  THEN {light_tree_distant_light_importance(kg, P, N, i)}
  ELSE {F(e) : e \in Energies}

DispatchBranchNoTreeOnly(num_distant_lights, num_light_tree_prims) ==
  IF num_light_tree_prims = 0 THEN "distant" ELSE "mix"

DispatchBranchNoDistantOnly(num_distant_lights, num_light_tree_prims) ==
  IF num_distant_lights = 0 \/ num_light_tree_prims = 0 THEN "tree" ELSE "mix"

\* The if / else if / else of light_tree_sample_from_position.
DispatchBranch(num_distant_lights, num_light_tree_prims) ==
  IF num_distant_lights = 0 THEN "tree"
  ELSE IF num_light_tree_prims = 0 THEN "distant"
  ELSE "mix"

LightTreeProbability(light_tree_importance, distant_light_importance) ==
  FDiv[light_tree_importance, FAdd[light_tree_importance, distant_light_importance]]

MixBranchSwapped(u, probability) ==
  IF FLt[u, probability] THEN "mix_distant" ELSE "mix_tree"

\* Line 313: randu < light_tree_probability.
MixBranch(u, probability) == IF FLt[u, probability] THEN "mix_tree" ELSE "mix_distant"

\* Lines 314-315 and 319-320: the randu argument of the sub-sampler's call is
\* the dispatcher's parameter randu, which no statement assigns.
SubSamplerRandu == randu

\* Lines 291-313: the counts, pdf_factor = 1, ret = false, and the choice of the
\* sub-sampler.
SampleFromPositionEnter ==
  /\ pc = "start"
  /\ LET num_distant_lights == kernel_data.integrator.num_distant_lights
         num_light_tree_prims == kernel_data.integrator.num_distribution - num_distant_lights
         b == DispatchBranch(num_distant_lights, num_light_tree_prims)
     IN IF b = "mix"
        THEN \E light_tree_importance \in
                  {ClusterImportance(0)},
                distant_light_importance \in
                  DistantImportanceFetch(kernel_data, ShadingP, ShadingN, num_distant_lights) :
               \E p \in {LightTreeProbability(light_tree_importance,
                                             distant_light_importance)} :
                  /\ light_tree_probability' = p
                  /\ branch' = MixBranch(randu, p)
                  /\ reads' = reads \cup {<<"light_tree_nodes", 0>>,
                                          <<"light_tree_distant_group", num_distant_lights>>}
                  /\ mix_importance' = [tree |-> light_tree_importance,
                                        distant |-> distant_light_importance]
        ELSE /\ light_tree_probability' = Unset
             /\ branch' = b
             /\ reads' = reads
             /\ mix_importance' = Unset
  /\ pdf_factor' = F(1)
  /\ ret' = FALSE
  /\ pc' = IF branch' \in {"tree", "mix_tree"} THEN "tree_init" ELSE "distant_init"
  /\ trace' = Append(trace, "light_tree_sample_from_position")
  /\ UNCHANGED <<pass, kernel_data, importance, call, result, external, randu, path_flag, ls, index, tree_u, total_importance, selected,
                 kdistribution, at_return>>

\* ------------------------------------------------- resolving the light

\* Line 187 and line 265: *pdf_factor *= the selected light's probability.
SelectPdfFactor(factor, pdf) == FMul[factor, pdf]

ShadowCatcherNeverExcluded(flag, object) == FALSE

\* Lines 200-201: a mesh light is left out of the shadow catcher pass unless its
\* object is a shadow catcher.
ShadowCatcherExcluded(flag, object) ==
  /\ "PATH_RAY_SHADOW_CATCHER_PASS" \in flag
  /\ "SD_OBJECT_SHADOW_CATCHER" \notin ObjectFlag(object)

\* The results of light_select_reached_max_bounces(kg, lamp, bounce).
ReachedMaxBounces == BOOLEAN

LampOutcomesNoBudget(lamp, sample) ==
  {[ret |-> r.ok, ls |-> r.ls,
    events |-> <<"light_select_reached_max_bounces", "light_sample">>,
    reads |-> {},
    external |-> [light_select_reached_max_bounces |-> reached, light_sample |-> r,
                  triangle_light_sample |-> Unset]] :
   reached \in ReachedMaxBounces, r \in LightSamples}

\* Lines 211-217 and 269-275: a lamp.  Each outcome is the value returned, the
\* sample left behind, the calls made and the entries read.
LampOutcomes(lamp, sample) ==
  {[ret |-> IF reached THEN FALSE ELSE r.ok,
    ls |-> IF reached THEN sample ELSE r.ls,
    events |-> IF reached THEN <<"light_select_reached_max_bounces">>
               ELSE <<"light_select_reached_max_bounces", "light_sample">>,
    reads |-> {},
    external |-> [light_select_reached_max_bounces |-> reached,
                  light_sample |-> IF reached THEN Unset ELSE r,
                  triangle_light_sample |-> Unset]] :
   reached \in ReachedMaxBounces, r \in LightSamples}

MeshOutcomesFlagDropped(kd, flag, sample) ==
  IF ShadowCatcherExcluded(flag, kd.object_id)
  THEN {[ret |-> FALSE, ls |-> sample, events |-> <<>>,
         reads |-> {<<"object_flag", kd.object_id>>}, external |-> Unset]}
  ELSE {[ret |-> FGt[t.pdf, F(0)],
         ls |-> [pdf |-> t.pdf, shader |-> t.shader],
         events |-> <<"triangle_light_sample">>,
         reads |-> {},
         external |-> [light_select_reached_max_bounces |-> Unset, light_sample |-> Unset,
                       triangle_light_sample |-> t]] : t \in TriangleSamples}

\* Lines 195-209: a mesh-light triangle.
MeshOutcomes(kd, flag, sample) ==
  IF ShadowCatcherExcluded(flag, kd.object_id)
  THEN {[ret |-> FALSE, ls |-> sample, events |-> <<>>,
         reads |-> {<<"object_flag", kd.object_id>>}, external |-> Unset]}
  ELSE {[ret |-> FGt[t.pdf, F(0)],
         ls |-> [pdf |-> t.pdf, shader |-> t.shader \cup kd.shader_flag],
         events |-> <<"triangle_light_sample">>,
         reads |-> IF "PATH_RAY_SHADOW_CATCHER_PASS" \in flag
                   THEN {<<"object_flag", kd.object_id>>} ELSE {},
         external |-> [light_select_reached_max_bounces |-> Unset, light_sample |-> Unset,
                       triangle_light_sample |-> t]] : t \in TriangleSamples}

\* Lines 193-217: the light behind the selected emitter.
EmitterOutcomes(kd, flag, sample) ==
  IF kd.prim >= 0 THEN MeshOutcomes(kd, flag, sample)
  ELSE LampOutcomes(-kd.prim - 1, sample)

\* The CDF walk of lines 180-186 and 260-264 over pdf[0..n-1]: the first i with
\* u < pdf[0] + ... + pdf[i], or -1 when the loop runs out.
RECURSIVE CdfWalk(_, _, _, _, _)
CdfWalk(pdf, n, u, i, cdf) ==
  IF i >= n THEN [hit |-> -1, pdf |-> NaN]
  ELSE LET next_cdf == FAdd[cdf, pdf[i]]
       IN IF FLt[u, next_cdf] THEN [hit |-> i, pdf |-> pdf[i]]
          ELSE CdfWalk(pdf, n, u, i + 1, next_cdf)

\* ------------------------------------------------------ light_tree_sample

\* Lines 133-138: index = 0, *pdf_factor = 1, one random number, the root.
TreeInit ==
  /\ pc = "tree_init"
  /\ index' = 0
  /\ pdf_factor' = F(1)
  /\ \E u \in Uniform : tree_u' = u
  /\ reads' = reads \cup {<<"light_tree_nodes", 0>>}
  /\ trace' = trace \o <<"light_tree_sample", "path_state_rng_1D">>
  /\ pc' = "tree_loop"
  /\ UNCHANGED <<pass, kernel_data, importance, call, result, external, randu, path_flag, ls, branch, mix_importance,
                 light_tree_probability, total_importance, ret, selected, kdistribution,
                 at_return>>

InteriorStepNoDivide(i, child_index, u, factor, left_importance, right_importance) ==
  LET left_probability == FDiv[left_importance, FAdd[left_importance, right_importance]]
  IN IF FLt[u, left_probability]
     THEN [index |-> i + 1,
           tree_u |-> FMul[u, FAdd[left_importance, right_importance]],
           pdf_factor |-> FMul[factor, left_probability],
           left_probability |-> left_probability]
     ELSE [index |-> child_index,
           tree_u |-> FSub[FMul[u, FAdd[left_importance, right_importance]],
                           left_importance],
           pdf_factor |-> FMul[factor, FSub[F(1), left_probability]],
           left_probability |-> left_probability]

InteriorStepLeftStays(i, child_index, u, factor, left_importance, right_importance) ==
  LET left_probability == FDiv[left_importance, FAdd[left_importance, right_importance]]
  IN IF FLt[u, left_probability]
     THEN [index |-> i,
           tree_u |-> FDiv[FMul[u, FAdd[left_importance, right_importance]], left_importance],
           pdf_factor |-> FMul[factor, left_probability],
           left_probability |-> left_probability]
     ELSE [index |-> child_index,
           tree_u |-> FDiv[FSub[FMul[u, FAdd[left_importance, right_importance]],
                                left_importance], right_importance],
           pdf_factor |-> FMul[factor, FSub[F(1), left_probability]],
           left_probability |-> left_probability]

InteriorStepChildrenSwapped(i, child_index, u, factor, left_importance, right_importance) ==
  LET left_probability == FDiv[left_importance, FAdd[left_importance, right_importance]]
  IN IF FLt[u, left_probability]
     THEN [index |-> child_index,
           tree_u |-> FDiv[FMul[u, FAdd[left_importance, right_importance]], left_importance],
           pdf_factor |-> FMul[factor, left_probability],
           left_probability |-> left_probability]
     ELSE [index |-> i + 1,
           tree_u |-> FDiv[FSub[FMul[u, FAdd[left_importance, right_importance]],
                                left_importance], right_importance],
           pdf_factor |-> FMul[factor, FSub[F(1), left_probability]],
           left_probability |-> left_probability]

\* Lines 147-161: the split at an interior node whose right child is at
\* child_index, given the importance of its left and of its right child.
InteriorStep(i, child_index, u, factor, left_importance, right_importance) ==
  LET left_probability == FDiv[left_importance, FAdd[left_importance, right_importance]]
  IN IF FLt[u, left_probability]
     THEN [index |-> i + 1,
           tree_u |-> FDiv[FMul[u, FAdd[left_importance, right_importance]], left_importance],
           pdf_factor |-> FMul[factor, left_probability],
           left_probability |-> left_probability]
     ELSE [index |-> child_index,
           tree_u |-> FDiv[FSub[FMul[u, FAdd[left_importance, right_importance]],
                                left_importance], right_importance],
           pdf_factor |-> FMul[factor, FSub[F(1), left_probability]],
           left_probability |-> left_probability]

DescentDrawsPerStep == <<"path_state_rng_1D">>

\* Lines 139-162: an iteration rescales tree_u and calls path_state_rng_1D
\* no further time.
DescentDraws == <<>>

\* Lines 139-162: one iteration of the descent.
TreeInterior ==
  /\ pc = "tree_loop"
  /\ kernel_data.light_tree_nodes[index].child_index > 0
  /\ \E knode \in {kernel_data.light_tree_nodes[index]} :
       \E left_importance \in
            {ClusterImportance(index + 1)},
          right_importance \in
            {ClusterImportance(knode.child_index)} :
         \E step \in {InteriorStep(index, knode.child_index, tree_u, pdf_factor,
                                   left_importance, right_importance)} :
            /\ index' = step.index
            /\ tree_u' = step.tree_u
            /\ pdf_factor' = step.pdf_factor
            /\ reads' = reads \cup {<<"light_tree_nodes", index + 1>>,
                                    <<"light_tree_nodes", knode.child_index>>}
  /\ trace' = trace \o DescentDraws
  /\ UNCHANGED <<pass, kernel_data, importance, call, result, external, randu, path_flag, ls, pc, branch, mix_importance,
                 light_tree_probability, total_importance, ret, selected, kdistribution,
                 at_return>>

\* Lines 166-170: the sum of the importances of the leaf's emitters.
RECURSIVE LeafTotal(_, _)
LeafTotal(knode, i) ==
  IF i < 0 THEN F(0)
  ELSE FAdd[LeafTotal(knode, i - 1), EmitterImportance(-knode.child_index + i)]

LeafNeverUnsampleable(total) == FALSE

\* Line 173: total_emitter_importance == 0.0f.
LeafUnsampleable(total) == FEq[total, F(0)]

EmitterReadsFromZero(knode, last) == {<<"light_tree_emitters", i>> : i \in 0..last}

\* The emitters of the leaf knode read by a loop that runs over i = 0..last.
EmitterReads(knode, last) ==
  {<<"light_tree_emitters", -knode.child_index + i>> : i \in 0..last}

\* Lines 166-175: the total importance of the leaf, and the return on zero.
TreeLeafTotal ==
  /\ pc = "tree_loop"
  /\ kernel_data.light_tree_nodes[index].child_index <= 0
  /\ \E knode \in {kernel_data.light_tree_nodes[index]} :
     \E total \in {LeafTotal(knode, knode.num_prims - 1)} :
        /\ total_importance' = total
        /\ reads' = reads \cup EmitterReads(knode, knode.num_prims - 1)
        /\ IF LeafUnsampleable(total)
           THEN /\ ret' = FALSE
                /\ trace' = Append(trace, "return_statement")
                /\ pc' = "returned"
           ELSE /\ ret' = ret
                /\ trace' = trace
                /\ pc' = "tree_walk"
  /\ UNCHANGED <<pass, kernel_data, importance, call, result, external, randu, path_flag, ls, branch, mix_importance,
                 light_tree_probability, index, tree_u, pdf_factor, selected, kdistribution,
                 at_return>>

EmitterPdfsUnnormalised(knode, inv_total_importance) ==
  [i \in 0..(knode.num_prims - 1) |-> EmitterImportance(-knode.child_index + i)]

\* Lines 183-184: the normalised probability of each emitter of the leaf.
EmitterPdfs(knode, inv_total_importance) ==
  [i \in 0..(knode.num_prims - 1) |->
     FMul[EmitterImportance(-knode.child_index + i), inv_total_importance]]

\* Lines 178-223: the CDF walk over the leaf, the selected emitter's light, and
\* the return of false behind the loop (assert(false) is compiled out).
TreeLeafWalk ==
  /\ pc = "tree_walk"
  /\ \E knode \in {kernel_data.light_tree_nodes[index]},
        inv_total_importance \in {FDiv[F(1), total_importance]} :
     \E pdfs \in {EmitterPdfs(knode, inv_total_importance)} :
     \E walk \in {CdfWalk(pdfs, knode.num_prims, tree_u, 0, F(0))} :
     LET prim_index == -knode.child_index + walk.hit
     IN IF walk.hit >= 0
        THEN \E kd \in Distributions : \E o \in EmitterOutcomes(kd, path_flag, ls) :
               /\ pdf_factor' = SelectPdfFactor(pdf_factor, walk.pdf)
               /\ selected' = prim_index
               /\ kdistribution' = kd
               /\ ret' = o.ret
               /\ ls' = o.ls
               /\ external' = o.external
               /\ trace' = trace \o <<"inv_total_importance">> \o o.events
                                 \o <<"return_statement">>
               /\ reads' = reads \cup EmitterReads(knode, walk.hit)
                                 \cup {<<"light_distribution", prim_index>>} \cup o.reads
        ELSE /\ ret' = FALSE
             /\ trace' = trace \o <<"inv_total_importance", "walk_exhausted",
                                  "return_statement">>
             /\ reads' = reads \cup EmitterReads(knode, knode.num_prims - 1)
             /\ UNCHANGED <<pdf_factor, selected, kdistribution, ls, external>>
  /\ pc' = "returned"
  /\ UNCHANGED <<pass, kernel_data, importance, call, result, randu, path_flag, branch, mix_importance,
                 light_tree_probability, index, tree_u, total_importance, at_return>>

\* --------------------------------------- light_tree_sample_distant_lights

\* Lines 252-255: the sum of the energies of the distant lights.
RECURSIVE DistantTotal(_, _, _, _)
DistantTotal(kg, P, N, i) ==
  IF i < 0 THEN F(0)
  ELSE FAdd[DistantTotal(kg, P, N, i - 1), light_tree_distant_light_importance(kg, P, N, i)]

DistantReads(last) == {<<"light_tree_distant_group", i>> : i \in 0..last}

\* Lines 251-256: the total importance and its inverse.
DistantInit ==
  /\ pc = "distant_init"
  /\ LET num_distant_lights == kernel_data.integrator.num_distant_lights
     IN /\ total_importance' = DistantTotal(kernel_data, ShadingP, ShadingN,
                                            num_distant_lights - 1)
        /\ reads' = reads \cup DistantReads(num_distant_lights - 1)
  /\ trace' = trace \o <<"light_tree_sample_distant_lights", "inv_total_importance">>
  /\ pc' = "distant_walk"
  /\ UNCHANGED <<pass, kernel_data, importance, call, result, external, randu, path_flag, ls, branch, mix_importance,
                 light_tree_probability, index, tree_u, pdf_factor, ret, selected,
                 kdistribution, at_return>>

\* Lines 261-262: the normalised probability of each distant light.
DistantPdfs(kg, P, N, inv_total_importance) ==
  [i \in 0..(kg.integrator.num_distant_lights - 1) |->
     FMul[light_tree_distant_light_importance(kg, P, N, i), inv_total_importance]]

\* The values a function that ends without a return statement can hand back.
MissingReturn == BOOLEAN

\* Lines 258-278: one random number, the CDF walk over the distant lights and
\* the selected lamp; behind the loop the function ends without a return.
DistantWalk ==
  /\ pc = "distant_walk"
  /\ \E distant_u \in Uniform :
     \E num_distant_lights \in {kernel_data.integrator.num_distant_lights},
        inv_total_importance \in {FDiv[F(1), total_importance]} :
     \E pdfs \in {DistantPdfs(kernel_data, ShadingP, ShadingN, inv_total_importance)} :
     \E walk \in {CdfWalk(pdfs, num_distant_lights, distant_u, 0, F(0))} :
          /\ tree_u' = distant_u
          /\ IF walk.hit >= 0
             THEN \E o \in LampOutcomes(-kernel_data.light_tree_distant_group[walk.hit].prim_id - 1,
                                        ls) :
                    /\ pdf_factor' = SelectPdfFactor(pdf_factor, walk.pdf)
                    /\ selected' = walk.hit
                    /\ ret' = o.ret
                    /\ ls' = o.ls
                    /\ external' = o.external
                    /\ trace' = trace \o <<"path_state_rng_1D">> \o o.events
                                      \o <<"return_statement">>
                    /\ reads' = reads \cup DistantReads(walk.hit)
             ELSE /\ ret' \in MissingReturn
                  /\ trace' = trace \o <<"path_state_rng_1D", "walk_exhausted",
                                       "end_of_function">>
                  /\ reads' = reads \cup DistantReads(num_distant_lights - 1)
                  /\ UNCHANGED <<pdf_factor, selected, ls, external>>
  /\ pc' = "returned"
  /\ UNCHANGED <<pass, kernel_data, importance, call, result, randu, path_flag, branch, mix_importance,
                 light_tree_probability, index, total_importance, kdistribution, at_return>>

\* --------------------------------------------- the dispatcher's last lines

\* Lines 316 and 321: the branch probability of the mixed case.
FinalPdfFactor(b, factor, probability) ==
  IF b = "mix_tree" THEN FMul[factor, probability]
  ELSE IF b = "mix_distant" THEN FMul[factor, FSub[F(1), probability]]
  ELSE factor

ScaleSamplePdfSkipped(sample, factor) == sample

\* Line 325: ls->pdf *= pdf_factor.
ScaleSamplePdf(sample, factor) == [sample EXCEPT !.pdf = FMul[sample.pdf, factor]]

\* Lines 316-326: after the sub-sampler has returned.
SampleFromPositionFinish ==
  /\ pc = "returned"
  /\ pdf_factor' = FinalPdfFactor(branch, pdf_factor, light_tree_probability)
  /\ ls' = ScaleSamplePdf(ls, pdf_factor')
  /\ at_return' = [pdf_factor |-> pdf_factor, ls |-> ls]
  /\ trace' = trace \o <<"ls_pdf_mul", "return">>
  /\ pc' = "done"
  /\ UNCHANGED <<pass, kernel_data, importance, call, result, external, randu, path_flag, branch, mix_importance,
                 light_tree_probability, index, tree_u, total_importance, ret, selected,
                 kdistribution, reads>>

Next ==
  \/ SampleFromPositionEnter
  \/ TreeInit
  \/ TreeInterior
  \/ TreeLeafTotal
  \/ TreeLeafWalk
  \/ DistantInit
  \/ DistantWalk
  \/ SampleFromPositionFinish

Spec == Init /\ [][Next]_vars

\* The variables of the sampler while a function is called on its own.
sampler == <<kernel_data, importance, randu, path_flag, ls, branch, mix_importance,
             light_tree_probability, index, tree_u, total_importance, pdf_factor, ret,
             selected, kdistribution, at_return, trace, reads, external>>

Idle ==
  /\ kernel_data = Unset /\ importance = Unset /\ randu = Unset /\ path_flag = Unset
  /\ ls = Unset /\ branch = "none" /\ mix_importance = Unset
  /\ light_tree_probability = Unset /\ index = 0 /\ tree_u = Unset
  /\ total_importance = Unset /\ pdf_factor = Unset /\ ret = FALSE /\ selected = -1
  /\ kdistribution = Unset /\ at_return = Unset /\ trace = <<>> /\ reads = {}
  /\ external = Unset

\* ------------------------------ the interior step, called on its own

\* The importances of the two children.
StepImportances == {F(0), F(1), F(5), F(6), F(10), F(40)}

\* The random numbers of a step: those of Uniform, 0.05f and 0.95f, and the
\* left probability with the float just below it.
StepUniform(left_importance, right_importance) ==
  LET p == FDiv[left_importance, FAdd[left_importance, right_importance]]
  IN Uniform \cup {FDiv[F(1), F(20)], FDiv[F(19), F(20)]}
       \cup (IF FGt[p, F(0)] /\ FLt[p, F(1)] THEN {p, Below(p)} ELSE {})

StepCalls ==
  UNION {{[i |-> n[1], child_index |-> n[2], u |-> u, factor |-> factor,
           left_importance |-> left, right_importance |-> right] :
          n \in {<<0, 2>>, <<1, 4>>}, u \in StepUniform(left, right),
          factor \in {F(1), Ldexp(1, -1)}} :
         left \in StepImportances, right \in StepImportances}

StepInit ==
  /\ Idle
  /\ pc = "interior_step"
  /\ call \in StepCalls
  /\ result = Unset
  /\ NoPass

StepCall ==
  /\ pc = "interior_step"
  /\ result' = InteriorStep(call.i, call.child_index, call.u, call.factor,
                            call.left_importance, call.right_importance)
  /\ pc' = "stepped"
  /\ UNCHANGED <<sampler, pass, call>>

StepNext == StepCall

StepSpec == StepInit /\ [][StepNext]_vars

\* ------------------------------------ the estimator, called on its own

\* Bounding boxes on the x axis: a segment in front of P, a point (the box of a
\* point light), and a segment that holds P.
EstimatorBoxes ==
  {[min |-> V3(2, 0, 0), max |-> V3(6, 0, 0)],
   [min |-> V3(2, 0, 0), max |-> V3(2, 0, 0)],
   [min |-> V3(-2, 0, 0), max |-> V3(6, 0, 0)]}

\* Well-formed arguments of light_tree_node_importance: P off the centroid and
\* the corners, unit vectors N and bcone_axis, theta_o in [0, pi], theta_e in
\* [0, pi/2], energy >= 0.
EstimatorCalls ==
  [P : {V3(0, 0, 0), V3(1, 0, 0)},
   N : {V3(1, 0, 0), V3(0, 1, 0), V3(-1, 0, 0)},
   box : EstimatorBoxes,
   bcone_axis : {V3(-1, 0, 0), V3(0, 1, 0), V3(1, 0, 0)},
   theta_o : {F(0), F(1)},
   theta_e : {F(0), F(1)},
   energy : {F(e) : e \in Energies}]

EstimatorInit ==
  /\ Idle
  /\ pc = "light_tree_node_importance"
  /\ call \in EstimatorCalls
  /\ result = Unset
  /\ NoPass

EstimatorCall ==
  /\ pc = "light_tree_node_importance"
  /\ result' = light_tree_node_importance(call.P, call.N, call.box.min, call.box.max,
                                          call.bcone_axis, call.theta_o, call.theta_e,
                                          call.energy)
  /\ pc' = "estimated"
  /\ UNCHANGED <<sampler, pass, call>>

EstimatorNext == EstimatorCall

EstimatorSpec == EstimatorInit /\ [][EstimatorNext]_vars

\* ------------------- the two wrappers of the estimator, on one descriptor

\* Bounding boxes: a segment on the x, on the y and on the z axis.
DescriptorBoxes ==
  {[min |-> V3(2, 0, 0), max |-> V3(6, 0, 0)],
   [min |-> V3(0, 2, 0), max |-> V3(0, 6, 0)],
   [min |-> V3(0, 0, 2), max |-> V3(0, 0, 6)]}

\* The unit vectors along the axes.
UnitAxes ==
  {V3(1, 0, 0), V3(-1, 0, 0), V3(0, 1, 0), V3(0, -1, 0), V3(0, 0, 1), V3(0, 0, -1)}

\* A descriptor (bounding box, cone axis, theta_o, theta_e, energy) and the
\* shading point and normal of the call.
DescriptorCalls ==
  [P : {V3(0, 0, 0)},
   N : {V3(1, 0, 0), V3(0, 1, 0), V3(0, 0, 1)},
   box : DescriptorBoxes,
   bcone_axis : UnitAxes,
   theta_o : {F(0), F(1)},
   theta_e : {F(0), F(1)},
   energy : {F(1), F(41)}]

\* The emitter record of a descriptor.
DescriptorEmitter(d) ==
  [bounding_box_min |-> d.box.min, bounding_box_max |-> d.box.max,
   bounding_cone_axis |-> d.bcone_axis, theta_o |-> d.theta_o, theta_e |-> d.theta_e,
   energy |-> d.energy]

\* The node record of a descriptor: the same field values, and a leaf of one
\* emitter.
DescriptorNode(d) ==
  [bounding_box_min |-> d.box.min, bounding_box_max |-> d.box.max,
   bounding_cone_axis |-> d.bcone_axis, theta_o |-> d.theta_o, theta_e |-> d.theta_e,
   energy |-> d.energy, child_index |-> 0, num_prims |-> 1]

\* The tables that hold the two records.
DescriptorTables(d) ==
  [light_tree_nodes |-> [i \in 0..0 |-> DescriptorNode(d)],
   light_tree_emitters |-> [i \in 0..0 |-> DescriptorEmitter(d)]]

WrapperInit ==
  /\ Idle
  /\ pc = "wrappers"
  /\ call \in DescriptorCalls
  /\ result = Unset
  /\ NoPass

\* light_tree_cluster_importance on the node and light_tree_emitter_importance
\* on the emitter, at the same P and N.
WrapperCall ==
  /\ pc = "wrappers"
  /\ \E kg \in {DescriptorTables(call)} :
       result' = [cluster |-> light_tree_cluster_importance(kg, call.P, call.N,
                                                            kg.light_tree_nodes[0]),
                  emitter |-> light_tree_emitter_importance(kg, call.P, call.N, 0)]
  /\ pc' = "compared"
  /\ UNCHANGED <<sampler, pass, call>>

WrapperNext == WrapperCall

WrapperSpec == WrapperInit /\ [][WrapperNext]_vars

\* ------------------------------------------ the descent, run on its own

\* The depth of the deepest tree.
MaxDepth == 2

\* The node arrays of the binary trees of depth <= d in pre-order, as sequences
\* of offsets: 0 at a leaf, the distance to the right child at an interior
\* node, whose left child is the next entry.
RECURSIVE Layouts(_)
Layouts(d) ==
  IF d = 0 THEN {<<0>>}
  ELSE {<<0>>} \cup {<<1 + Len(l)>> \o l \o r : l \in Layouts(d - 1), r \in Layouts(d - 1)}

\* The number of leaves among the first k entries of a layout.
LeavesBefore(layout, k) == Cardinality({j \in 1..k : layout[j] = 0})

\* The node table of a layout: child_index is the index of the right child at
\* an interior node and minus the index of the first emitter at a leaf, which
\* holds one emitter.  en gives the energy of each node.
LayoutNodes(layout, en) ==
  [i \in 0..(Len(layout) - 1) |->
     IF layout[i + 1] > 0 THEN Node(en[i], i + layout[i + 1], 0)
     ELSE Node(en[i], -LeavesBefore(layout, i), 1)]

\* The energies of n nodes: 1 everywhere but at one node at most, of energy 0
\* or 41.
LayoutEnergies(n) ==
  {[i \in 0..(n - 1) |-> IF i = z THEN e ELSE 1] : z \in 0..(n - 1), e \in Energies}

\* The scenes of the descent: a tree and no distant light.
DescentKernelData ==
  UNION {{[light_tree_nodes |-> LayoutNodes(layout, en),
           light_tree_emitters |->
             EmitterTable([i \in 0..(Len(layout) - 1) |-> 1],
                          LeavesBefore(layout, Len(layout))),
           light_tree_distant_group |-> <<>>,
           integrator |-> [num_distant_lights |-> 0,
                           num_distribution |-> LeavesBefore(layout, Len(layout))]] :
          en \in LayoutEnergies(Len(layout))} :
         layout \in Layouts(MaxDepth)}

\* The random numbers of the descent: those of Uniform, a quarter and three
\* quarters.
DescentUniform == Uniform \cup {Ldexp(1, -2), Ldexp(3, -2)}

\* light_tree_sample after lines 133-138, called in the tree-only branch: the
\* root is fetched and the random number drawn.
DescentInit ==
  /\ kernel_data \in DescentKernelData
  /\ importance = SceneImportance(kernel_data, ShadingP, ShadingN)
  /\ randu \in {F(0)}
  /\ path_flag = {}
  /\ ls \in CallerSamples
  /\ pc = "tree_loop"
  /\ branch = "tree"
  /\ mix_importance = Unset
  /\ light_tree_probability = Unset
  /\ index = 0
  /\ tree_u \in DescentUniform
  /\ total_importance = Unset
  /\ pdf_factor = F(1)
  /\ ret = FALSE
  /\ selected = -1
  /\ kdistribution = Unset
  /\ at_return = Unset
  /\ trace = <<"light_tree_sample_from_position", "light_tree_sample", "path_state_rng_1D">>
  /\ reads = {<<"light_tree_nodes", 0>>}
  /\ external = Unset
  /\ call = Unset
  /\ result = Unset
  /\ NoPass

DescentNext == TreeInterior

\* The current node is a leaf: the condition of the while loop is false.
AtLeaf == pc = "tree_loop" /\ kernel_data.light_tree_nodes[index].child_index <= 0

\* The while loop of lines 139-162 runs on as long as its condition holds:
\* weak fairness of TreeInterior, which is enabled exactly when the current
\* node is no leaf.
DescentSpec ==
  DescentInit /\ [][DescentNext]_vars /\ ([]<>AtLeaf \/ []<><<TreeInterior>>_vars)

\* ------------------------------------------------------------ properties

\* ------------------------------------------------ DrawMultiBuf of a pass

\* Bounds of a recording: the append_draw calls and the state changes of one
\* recording, and the times the pass is initialised again.
MaxDraws == 3

MaxStateChanges == 2

MaxClears == 1

\* (uint)-1, which marks no group; the counters and sums of a recording stay
\* far below it.
NoGroup == -1

\* A resource handle: raw holds the handedness in its top bit and the resource
\* index in the 31 bits below, written here as the pair of the two.
ResourceHandle(resource_index, inverted_handedness) ==
  [raw |-> <<IF inverted_handedness THEN 1 ELSE 0, resource_index>>]

has_inverted_handedness(handle) == handle.raw[1] = 1

\* The draws a pass records: two batches, instance counts 1 and 2, handles of
\* either handedness.
DrawCalls ==
  {[batch |-> "GPU_PRIM_TRIS", instance_len |-> 1, handle |-> ResourceHandle(1, FALSE)],
   [batch |-> "GPU_PRIM_POINTS", instance_len |-> 2, handle |-> ResourceHandle(2, TRUE)],
   [batch |-> "GPU_PRIM_POINTS", instance_len |-> 1, handle |-> ResourceHandle(3, FALSE)],
   [batch |-> "GPU_PRIM_TRIS", instance_len |-> 2, handle |-> ResourceHandle(4, TRUE)]}

\* Map::lookup_or_add: the map with the key added when it is absent.
lookup_or_add(map, key, value) ==
  IF key \in DOMAIN map THEN map ELSE (key :> value) @@ map

\* get_or_resize(i) followed by the assignment of the element's fields.
get_or_resize(buf, i, value) == (i :> value) @@ buf

\* A DrawMultiBuf after construction.
DrawMultiBuf ==
  [group_ids_ |-> <<>>, group_buf_ |-> <<>>, prototype_buf_ |-> <<>>,
   header_id_counter_ |-> 0, group_count_ |-> 0, prototype_count_ |-> 0]

\* DrawMultiBuf::clear.
clear(self) ==
  [self EXCEPT !.header_id_counter_ = 0, !.group_count_ = 0, !.prototype_count_ = 0]

\* Lines 488-492: after a state change a new DrawMulti command and its header.
AppendHeader(headers, commands, self, batch) ==
  IF headers[Len(headers)].type # "DrawMulti"
  THEN [headers |-> Append(headers, [type |-> "DrawMulti", index |-> Len(commands)]),
        commands |-> Append(commands,
                            [draw_multi |-> [batch |-> batch, group_first |-> NoGroup,
                                             uuid |-> self.header_id_counter_]]),
        header_id_counter_ |-> self.header_id_counter_ + 1]
  ELSE [headers |-> headers, commands |-> commands,
        header_id_counter_ |-> self.header_id_counter_]

\* Lines 500-515: the group of the draw is created, at the head of the
\* command's list.
CreateGroup(cmd, new_group_id, batch, instance_len, inverted) ==
  [next |-> cmd.group_first,
   len |-> instance_len,
   front_facing_len |-> IF inverted THEN 0 ELSE instance_len,
   gpu_batch |-> batch,
   front_proto_len |-> IF inverted THEN 0 ELSE 1,
   back_proto_len |-> IF inverted THEN 1 ELSE 0]

\* Lines 516-522: the draw is added to its group.
ExtendGroup(group, instance_len, inverted) ==
  [group EXCEPT !.len = @ + instance_len,
                !.front_facing_len = @ + (IF inverted THEN 0 ELSE instance_len),
                !.front_proto_len = @ + (IF inverted THEN 0 ELSE 1),
                !.back_proto_len = @ + (IF inverted THEN 1 ELSE 0)]

\* Lines 494-527, on the command cmd that ends commands.
AppendToGroup(headers, commands, self, cmd, batch, instance_len, handle, group_ids, group_id) ==
  LET inverted == has_inverted_handedness(handle)
      created == group_id = NoGroup
      id == IF created THEN self.group_count_ ELSE group_id
  IN [headers |-> headers,
      commands |-> IF created
                   THEN [commands EXCEPT ![Len(commands)].draw_multi.group_first = id]
                   ELSE commands,
      self |-> [group_ids_ |-> [group_ids EXCEPT ![<<cmd.uuid, batch>>] = id],
                group_buf_ |->
                  IF created
                  THEN get_or_resize(self.group_buf_, id,
                                     CreateGroup(cmd, id, batch, instance_len, inverted))
                  ELSE [self.group_buf_ EXCEPT
                          ![id] = ExtendGroup(@, instance_len, inverted)],
                prototype_buf_ |->
                  get_or_resize(self.prototype_buf_, self.prototype_count_,
                                [group_id |-> id, resource_handle |-> handle.raw,
                                 instance_len |-> instance_len]),
                header_id_counter_ |-> self.header_id_counter_,
                group_count_ |-> IF created THEN self.group_count_ + 1
                                 ELSE self.group_count_,
                prototype_count_ |-> self.prototype_count_ + 1]]

\* DrawMultiBuf::append_draw with vertex_len = -1 and vertex_first = -1: the
\* headers, the commands and the buffer after the call.
append_draw(headers, commands, self, batch, instance_len, handle) ==
  LET h == AppendHeader(headers, commands, self, batch)
      cmd == h.commands[Len(h.commands)].draw_multi
      group_ids == lookup_or_add(self.group_ids_, <<cmd.uuid, batch>>, NoGroup)
  IN AppendToGroup(h.headers, h.commands,
                   [self EXCEPT !.header_id_counter_ = h.header_id_counter_],
                   cmd, batch, instance_len, handle, group_ids,
                   group_ids[<<cmd.uuid, batch>>])

\* An entry of the history of a pass.
Recorded(op, uuid, batch, instance_len, handle) ==
  [op |-> op, uuid |-> uuid, batch |-> batch, instance_len |-> instance_len,
   handle |-> handle]

\* A pass after construction and init.
DrawInit ==
  /\ Idle
  /\ pc = "recording"
  /\ call = Unset
  /\ result = Unset
  /\ headers_ = <<>>
  /\ commands_ = <<>>
  /\ draw_commands_buf_ = DrawMultiBuf

\* The variables of the sampler that a pass leaves alone.
lights == <<kernel_data, importance, randu, path_flag, ls, branch, mix_importance,
            light_tree_probability, index, tree_u, total_importance, pdf_factor, ret,
            selected, kdistribution, at_return, reads, external>>

\* A state change of the pass (shader_set): a command that is no DrawMulti and
\* its header.
StateChange ==
  /\ pc = "recording"
  /\ Cardinality({i \in DOMAIN headers_ : headers_[i].type = "ShaderBind"}) < MaxStateChanges
  /\ headers_' = Append(headers_, [type |-> "ShaderBind", index |-> Len(commands_)])
  /\ commands_' = Append(commands_, [shader_bind |-> [shader |-> "GPUShader"]])
  /\ trace' = Append(trace, Recorded("shader_set", 0, "none", 0, ResourceHandle(0, FALSE)))
  /\ UNCHANGED <<lights, pc, call, result, draw_commands_buf_>>

\* The pass records a draw: one call of append_draw.
DrawAppend ==
  /\ pc = "recording"
  /\ Len(headers_) > 0
  /\ draw_commands_buf_.prototype_count_ < MaxDraws
  /\ \E d \in DrawCalls :
       \E r \in {append_draw(headers_, commands_, draw_commands_buf_, d.batch,
                             d.instance_len, d.handle)} :
          /\ headers_' = r.headers
          /\ commands_' = r.commands
          /\ draw_commands_buf_' = r.self
          /\ trace' = Append(trace,
                             Recorded("append_draw",
                                      r.commands[Len(r.commands)].draw_multi.uuid,
                                      d.batch, d.instance_len, d.handle))
  /\ UNCHANGED <<lights, pc, call, result>>

\* The pass is initialised again: its headers and commands are emptied and its
\* DrawMultiBuf is cleared.
PassInit ==
  /\ pc = "recording"
  /\ Cardinality({i \in DOMAIN trace : trace[i].op = "clear"}) < MaxClears
  /\ headers_' = <<>>
  /\ commands_' = <<>>
  /\ draw_commands_buf_' = clear(draw_commands_buf_)
  /\ trace' = Append(trace, Recorded("clear", 0, "none", 0, ResourceHandle(0, FALSE)))
  /\ UNCHANGED <<lights, pc, call, result>>

DrawNext == StateChange \/ DrawAppend \/ PassInit

DrawSpec == DrawInit /\ [][DrawNext]_vars

InTrace(e) == \E i \in DOMAIN trace : trace[i] = e

Count(e) == Cardinality({i \in DOMAIN trace : trace[i] = e})

TableReads(table) == {r \in reads : r[1] = table}

NumDistantLights == kernel_data.integrator.num_distant_lights

NumLightTreePrims == kernel_data.integrator.num_distribution - NumDistantLights

TreeBranch == branch \in {"tree", "mix_tree"}

DistantBranch == branch \in {"distant", "mix_distant"}

SamplerReturned == pc \in {"returned", "done"}

\* pdf_factor as the sub-sampler left it.
SamplerPdfFactor == IF pc = "done" THEN at_return.pdf_factor ELSE pdf_factor

\* C1: with no distant lights the dispatcher calls light_tree_sample and nothing
\* else: light_tree_sample_distant_lights is never called and no entry of
\* light_tree_distant_group is read.
C1_TreeOnlyDelegates ==
  NumDistantLights = 0 =>
    /\ ~InTrace("light_tree_sample_distant_lights")
    /\ TableReads("light_tree_distant_group") = {}
    /\ pc # "start" => branch = "tree"
    /\ pc = "done" => Count("light_tree_sample") = 1

C1_Witness == NumDistantLights = 0 /\ pc = "done" /\ ret /\ Count("light_tree_sample") = 1

\* C2: with distant lights and no tree emitters the dispatcher calls
\* light_tree_sample_distant_lights and nothing else: no entry of light_tree_nodes
\* or light_tree_emitters is read.
C2_DistantOnlyDelegates ==
  (NumDistantLights > 0 /\ NumLightTreePrims = 0) =>
    /\ ~InTrace("light_tree_sample")
    /\ TableReads("light_tree_nodes") = {}
    /\ TableReads("light_tree_emitters") = {}
    /\ pc # "start" => branch = "distant"
    /\ pc = "done" => Count("light_tree_sample_distant_lights") = 1

C2_Witness ==
  /\ NumDistantLights > 0 /\ NumLightTreePrims = 0
  /\ pc = "done" /\ ret /\ selected >= 0

\* The probability of the dispatcher's branch.
DispatcherProbability ==
  IF branch \in {"tree", "distant"} THEN F(1)
  ELSE LET p_tree == FDiv[mix_importance.tree,
                          FAdd[mix_importance.tree, mix_importance.distant]]
       IN IF branch = "mix_tree" THEN p_tree ELSE FSub[F(1), p_tree]

\* The product of the left or right probabilities on the way from node i down
\* to the leaf, times acc.
RECURSIVE DescentProbability(_, _, _)
DescentProbability(i, leaf, acc) ==
  IF i = leaf THEN acc
  ELSE LET right == kernel_data.light_tree_nodes[i].child_index
           p_left == FDiv[ClusterImportance(i + 1),
                          FAdd[ClusterImportance(i + 1), ClusterImportance(right)]]
       IN IF leaf < right THEN DescentProbability(i + 1, leaf, FMul[acc, p_left])
          ELSE DescentProbability(right, leaf, FMul[acc, FSub[F(1), p_left]])

RECURSIVE SumImportance(_, _, _)
SumImportance(f, lo, hi) ==
  IF hi < lo THEN F(0) ELSE FAdd[SumImportance(f, lo, hi - 1), f[hi]]

\* The normalised probability of the selected emitter among those of its leaf,
\* and of the selected distant light among the distant lights.
SelectedProbability ==
  IF TreeBranch
  THEN LET knode == kernel_data.light_tree_nodes[index]
       IN FMul[importance.emitters[selected],
               FDiv[F(1), SumImportance(importance.emitters, -knode.child_index,
                                        -knode.child_index + knode.num_prims - 1)]]
  ELSE FMul[kernel_data.light_tree_distant_group[selected].energy,
            FDiv[F(1), SumImportance([i \in DOMAIN kernel_data.light_tree_distant_group |->
                                        kernel_data.light_tree_distant_group[i].energy],
                                     0, NumDistantLights - 1)]]

\* The product of the probabilities of a call that selected a light, in the
\* order of the call: the descent, the selected light, the dispatcher's branch.
ProductOfProbabilities ==
  FMul[FMul[IF TreeBranch THEN DescentProbability(0, index, F(1)) ELSE F(1),
            SelectedProbability],
       DispatcherProbability]

\* C3: a call that returns success has selected a light, and its pdf_factor is
\* the product of the probabilities of the branches taken: the dispatcher's, each
\* interior node's, and the selected light's.
C3_PdfFactorIsProduct ==
  (pc = "done" /\ ret) => (selected >= 0 /\ pdf_factor = ProductOfProbabilities)

\* A call returns success although no light was selected.
C3_Witness == pc = "done" /\ ret /\ selected < 0

\* Root is a leaf with one emitter of importance > 0, and no distant lights.
SingleEmitterTree ==
  /\ NumDistantLights = 0
  /\ DOMAIN kernel_data.light_tree_nodes = {0}
  /\ kernel_data.light_tree_nodes[0].num_prims = 1
  /\ FGt[importance.emitters[0], F(0)]

\* C4, as amended: on a single-emitter tree light_tree_sample ends with
\* pdf_factor = importance * (1 / importance) in float arithmetic when the walk
\* selects the emitter, which is 1 or the float just below 1, and with
\* pdf_factor = 1 when it selects none.
C4_SingleEmitterPdfFactorRounded ==
  (SingleEmitterTree /\ SamplerReturned) =>
    /\ SamplerPdfFactor = IF selected >= 0
                          THEN FMul[importance.emitters[0],
                                    FDiv[F(1), importance.emitters[0]]]
                          ELSE F(1)
    /\ SamplerPdfFactor \in {F(1), OneBelow}

C4_Witness ==
  /\ SingleEmitterTree /\ pc = "done" /\ selected = 0
  /\ tree_u = Ldexp(1, -1) /\ at_return.pdf_factor = OneBelow

\* C4, as stated: on a single-emitter tree light_tree_sample ends with
\* pdf_factor = 1 for every random number.
C4_SingleEmitterPdfFactorIsOne ==
  (SingleEmitterTree /\ SamplerReturned) => SamplerPdfFactor = F(1)

\* C5: when the leaf reached has total importance 0, light_tree_sample returns
\* false, has not divided by the total and has called no light sampler.
C5_ZeroLeafFails ==
  (TreeBranch /\ SamplerReturned /\ total_importance = F(0)) =>
    /\ ~ret
    /\ ~InTrace("inv_total_importance")
    /\ ~InTrace("triangle_light_sample")
    /\ ~InTrace("light_sample")
    /\ selected < 0

C5_Witness ==
  /\ TreeBranch /\ pc = "done" /\ total_importance = F(0)
  /\ kernel_data.light_tree_nodes[index].num_prims = 2
  /\ tree_u = Ldexp(1, -1)

\* C6: when the energies of the distant lights sum to 0,
\* light_tree_sample_distant_lights returns false and has not divided by the sum.
C6_ZeroDistantFails ==
  (DistantBranch /\ SamplerReturned /\ total_importance = F(0)) =>
    (~ret /\ ~InTrace("inv_total_importance"))

\* The distant lights sum to 0, the sum was divided by, and the call succeeds.
C6_Witness ==
  /\ DistantBranch /\ pc = "done" /\ total_importance = F(0)
  /\ InTrace("inv_total_importance") /\ ret

\* C7: both samplers end in a return statement on every path; a CDF walk that
\* runs out returns false, and the emitters read are those of the leaf.
C7_ExplicitReturn ==
  /\ ~InTrace("end_of_function")
  /\ SamplerReturned => Count("return_statement") = 1
  /\ (SamplerReturned /\ InTrace("walk_exhausted")) => ~ret
  /\ \A r \in TableReads("light_tree_emitters") :
       LET knode == kernel_data.light_tree_nodes[index]
       IN r[2] \in (-knode.child_index)..(-knode.child_index + knode.num_prims - 1)

\* The walk over the distant lights runs out and the call returns success.
C7_Witness == DistantBranch /\ pc = "done" /\ InTrace("end_of_function") /\ ret

\* C8: with both kinds of light the dispatcher forms p_tree from the importance
\* of the root and of the distant lights, calls light_tree_sample iff
\* randu < p_tree and light_tree_sample_distant_lights otherwise, and multiplies
\* the sampler's pdf_factor by p_tree, or by 1 - p_tree.
C8_MixedBranch ==
  (NumDistantLights > 0 /\ NumLightTreePrims > 0 /\ pc # "start") =>
    /\ branch \in {"mix_tree", "mix_distant"}
    /\ mix_importance.tree = importance.nodes[0]
    /\ light_tree_probability =
         FDiv[mix_importance.tree, FAdd[mix_importance.tree, mix_importance.distant]]
    /\ branch = "mix_tree" <=> FLt[randu, light_tree_probability]
    /\ branch = "mix_tree" => ~InTrace("light_tree_sample_distant_lights")
    /\ branch = "mix_distant" => ~InTrace("light_tree_sample")
    /\ pc = "done" =>
         /\ Count("light_tree_sample") = IF branch = "mix_tree" THEN 1 ELSE 0
         /\ Count("light_tree_sample_distant_lights") = IF branch = "mix_tree" THEN 0 ELSE 1
         /\ pdf_factor = FMul[at_return.pdf_factor,
                              IF branch = "mix_tree" THEN light_tree_probability
                              ELSE FSub[F(1), light_tree_probability]]

C8_Witness ==
  /\ pc = "done" /\ branch = "mix_tree" /\ ret
  /\ FLt[F(0), light_tree_probability] /\ FLt[light_tree_probability, F(1)]
  /\ pdf_factor # at_return.pdf_factor

\* C9: the dispatcher multiplies ls->pdf by pdf_factor once on every path: after
\* the sub-sampler has returned, and as its last step before it returns.
C9_PdfScaledOnce ==
  /\ pc # "done" => Count("ls_pdf_mul") = 0
  /\ pc = "done" =>
       /\ Count("ls_pdf_mul") = 1
       /\ trace[Len(trace) - 1] = "ls_pdf_mul"
       /\ trace[Len(trace)] = "return"
       /\ \E i \in 1..(Len(trace) - 2) :
            trace[i] \in {"light_tree_sample", "light_tree_sample_distant_lights"}
       /\ ls.pdf = FMul[at_return.ls.pdf, pdf_factor]

C9_Witness ==
  /\ pc = "done" /\ ~ret /\ InTrace("light_sample")
  /\ ls.pdf # at_return.ls.pdf

\* The selected emitter is a mesh light of an object that is no shadow catcher,
\* in the shadow catcher pass.
ShadowCatcherCase ==
  /\ TreeBranch /\ SamplerReturned /\ selected >= 0
  /\ kdistribution.prim >= 0
  /\ "PATH_RAY_SHADOW_CATCHER_PASS" \in path_flag
  /\ "SD_OBJECT_SHADOW_CATCHER" \notin ObjectFlag(kdistribution.object_id)

\* C10: in the shadow catcher pass a selected mesh light whose object is no
\* shadow catcher makes light_tree_sample return false without a call of
\* triangle_light_sample; light_tree_sample_distant_lights reads no object flag.
C10_ShadowCatcherExclusion ==
  /\ ShadowCatcherCase => (~ret /\ ~InTrace("triangle_light_sample"))
  /\ (DistantBranch /\ SamplerReturned) => TableReads("object_flag") = {}

C10_Witness == ShadowCatcherCase /\ pc = "done"

\* The sample as the sub-sampler left it.
SamplerSample == IF pc = "done" THEN at_return.ls ELSE ls

\* The selected light is a lamp: an emitter with prim < 0, or a distant light.
LampSelected ==
  /\ SamplerReturned /\ selected >= 0
  /\ TreeBranch => kdistribution.prim < 0

\* C11: when the selected light is a lamp whose bounce budget is used up, both
\* samplers return false without a call of light_sample; otherwise they call
\* light_sample once and return its result and its sample.
C11_BounceBudget ==
  LampSelected =>
    /\ Count("light_select_reached_max_bounces") = 1
    /\ IF external.light_select_reached_max_bounces
       THEN ~ret /\ ~InTrace("light_sample")
       ELSE /\ Count("light_sample") = 1
            /\ ret = external.light_sample.ok
            /\ SamplerSample = external.light_sample.ls

C11_Witness ==
  /\ LampSelected /\ DistantBranch /\ pc = "done"
  /\ external.light_select_reached_max_bounces /\ ~ret

\* The selected emitter is a mesh-light triangle that the shadow catcher check
\* does not reject.
MeshSampled ==
  /\ TreeBranch /\ SamplerReturned /\ selected >= 0
  /\ kdistribution.prim >= 0
  /\ ~ShadowCatcherCase

\* C12: for a mesh-light triangle that is not rejected light_tree_sample calls
\* triangle_light_sample once, ORs the emitter's shader flag into the sample's
\* shader and returns true iff the sampled pdf is > 0.
C12_MeshLightSample ==
  MeshSampled =>
    /\ Count("triangle_light_sample") = 1
    /\ SamplerSample.shader =
         external.triangle_light_sample.shader \cup kdistribution.shader_flag
    /\ SamplerSample.pdf = external.triangle_light_sample.pdf
    /\ ret <=> FGt[external.triangle_light_sample.pdf, F(0)]

C12_Witness ==
  /\ MeshSampled /\ pc = "done" /\ ret
  /\ "SHADER_USE_MIS" \in at_return.ls.shader
  /\ "SHADER_SURFACE" \in at_return.ls.shader

\* C13: light_tree_node_importance returns a finite value >= 0 for every
\* well-formed input, a box of zero extent included.
C13_ImportanceFiniteNonNegative ==
  pc = "estimated" => (IsFinite(result) /\ FGe[result, F(0)])

\* The box of a point light makes the importance infinite or NaN.
C13_Witness ==
  /\ pc = "estimated" /\ call.box.min = call.box.max
  /\ ~IsFinite(result)

\* The centroid of the call's box and the unit vector from a to b.
CallCentroid == V3Scale[Ldexp(1, -1), V3Add[call.box.min, call.box.max]]

Direction(a, b) == normalize[V3Sub[b, a]]

\* The angle between the cone axis and the direction from the centroid to P.
CallTheta == fast_acosf[dot[call.bcone_axis, Direction(CallCentroid, call.P)]]

\* The half-angle of the box seen from P: the largest angle between the
\* direction to the centroid and the direction to a corner.
CallThetaU ==
  LET angles == {fast_acosf[dot[Direction(call.P, CallCentroid),
                                Direction(call.P, <<x, y, z>>)]] :
                   x \in {call.box.min[1], call.box.max[1]},
                   y \in {call.box.min[2], call.box.max[2]},
                   z \in {call.box.min[3], call.box.max[3]}}
  IN CHOOSE t \in angles : \A a \in angles : FGe[t, a]

\* C14: light_tree_node_importance returns exactly 0 whenever
\* theta - theta_o - theta_u >= theta_e.
C14_CutoffReturnsZero ==
  (pc = "estimated"
     /\ FGe[FSub[FSub[CallTheta, call.theta_o], CallThetaU], call.theta_e]) =>
    result = F(0)

C14_Witness ==
  /\ pc = "estimated" /\ result = F(0)
  /\ FGe[FSub[FSub[CallTheta, call.theta_o], CallThetaU], call.theta_e]
  /\ call.theta_e = F(1) /\ call.energy = F(41) /\ call.box.min # call.box.max
  /\ call.N = V3(1, 0, 0) /\ call.P = V3(0, 0, 0)

\* C15: one call of light_tree_sample or of light_tree_sample_distant_lights
\* calls path_state_rng_1D exactly once, whatever the depth of the tree, the
\* size of the leaf and the outcome; the dispatcher calls it never, so one call
\* of light_tree_sample_from_position consumes one draw.
C15_OneDrawPerCall ==
  /\ pc \in {"start", "tree_init", "distant_init"} => Count("path_state_rng_1D") = 0
  /\ Count("path_state_rng_1D") <= 1
  /\ SamplerReturned =>
       /\ Count("path_state_rng_1D") = 1
       /\ Count("light_tree_sample") + Count("light_tree_sample_distant_lights") = 1

\* A call that descended from the root to its right leaf and selected an emitter.
C15_Witness ==
  /\ pc = "done" /\ TreeBranch /\ index = 2 /\ selected >= 0
  /\ Count("path_state_rng_1D") = 1

\* The float values in [0, 1).
InUnitInterval(u) == IsFinite(u) /\ FGe[u, F(0)] /\ FLt[u, F(1)]

\* A step at a node whose two children have importance > 0.
StepBothPositive ==
  /\ pc = "stepped"
  /\ FGt[call.left_importance, F(0)] /\ FGt[call.right_importance, F(0)]

\* C16: at an interior node with left importance L > 0 and right importance
\* R > 0 the step goes to index + 1 and multiplies pdf_factor by L / (L + R) iff
\* u < L / (L + R); otherwise it goes to child_index and multiplies pdf_factor by
\* 1 - L / (L + R).  With L = 10 and R = 1, u = 0.05 goes left and u = 0.95 right.
C16_InteriorSplit ==
  StepBothPositive =>
    LET p_left == FDiv[call.left_importance,
                       FAdd[call.left_importance, call.right_importance]]
    IN /\ IF FLt[call.u, p_left]
          THEN /\ result.index = call.i + 1
               /\ result.pdf_factor = FMul[call.factor, p_left]
          ELSE /\ result.index = call.child_index
               /\ result.pdf_factor = FMul[call.factor, FSub[F(1), p_left]]
       /\ (call.left_importance = F(10) /\ call.right_importance = F(1)) =>
            /\ call.u = FDiv[F(1), F(20)] => result.index = call.i + 1
            /\ call.u = FDiv[F(19), F(20)] => result.index = call.child_index

C16_Witness ==
  /\ StepBothPositive
  /\ call.left_importance = F(10) /\ call.right_importance = F(1)
  /\ call.u = FDiv[F(19), F(20)] /\ call.i = 1 /\ result.index = 4

\* C17: a step at a node whose children both have importance > 0 takes u in
\* [0, 1) to a rescaled u in [0, 1), on the left and on the right branch.
C17_RescaledInUnitInterval ==
  (StepBothPositive /\ InUnitInterval(call.u)) => InUnitInterval(result.tree_u)

\* A step to the left child rescales u < 1 to 1.
C17_Witness ==
  /\ StepBothPositive /\ InUnitInterval(call.u)
  /\ result.index = call.i + 1 /\ result.tree_u = F(1)

\* C18: at an interior node whose children both have importance 0 the left
\* probability, the rescaled u and pdf_factor are defined values.
C18_ZeroSplitDefined ==
  (pc = "stepped" /\ call.left_importance = F(0) /\ call.right_importance = F(0)) =>
    /\ ~IsNaN(result.left_probability)
    /\ ~IsNaN(result.tree_u)
    /\ ~IsNaN(result.pdf_factor)

\* Both children have importance 0 and the step leaves NaN in all three.
C18_Witness ==
  /\ pc = "stepped" /\ call.left_importance = F(0) /\ call.right_importance = F(0)
  /\ IsNaN(result.left_probability) /\ IsNaN(result.tree_u) /\ IsNaN(result.pdf_factor)
  /\ result.index = call.child_index

\* The running sum of the normalised probabilities of the first i + 1 emitters
\* of the leaf knode.
RECURSIVE LeafCdf(_, _)
LeafCdf(knode, i) ==
  IF i < 0 THEN F(0)
  ELSE FAdd[LeafCdf(knode, i - 1),
            FMul[importance.emitters[-knode.child_index + i],
                 FDiv[F(1), total_importance]]]

\* light_tree_sample went through a leaf of total importance > 0 with u in [0, 1).
LeafWalked ==
  /\ TreeBranch /\ SamplerReturned
  /\ FGt[total_importance, F(0)]
  /\ InUnitInterval(tree_u)

\* C19: with u in [0, 1) and a leaf of total importance > 0 the CDF walk selects
\* the emitter whose CDF interval holds u, and the point behind the loop is not
\* reached.
C19_WalkSelects ==
  LeafWalked =>
    /\ ~InTrace("walk_exhausted")
    /\ selected >= 0
    /\ LET knode == kernel_data.light_tree_nodes[index]
           i == selected + knode.child_index
       IN /\ i \in 0..(knode.num_prims - 1)
          /\ FGe[tree_u, LeafCdf(knode, i - 1)]
          /\ FLt[tree_u, LeafCdf(knode, i)]

\* The walk over a leaf of total importance > 0 runs out with u in [0, 1).
C19_Witness ==
  /\ LeafWalked /\ pc = "done"
  /\ InTrace("walk_exhausted") /\ selected < 0 /\ ~ret

\* C20: light_tree_sample reads light_tree_emitters and light_distribution only
\* at the indexes s .. s + k - 1 of the leaf it reached (child_index = -s,
\* num_prims = k), in the summing loop and in the CDF walk; the summing loop
\* reads all of them.
C20_LeafReadsInRun ==
  LET leaf_reads == TableReads("light_tree_emitters") \cup TableReads("light_distribution")
  IN IF TreeBranch /\ pc \in {"tree_walk", "returned", "done"}
     THEN LET knode == kernel_data.light_tree_nodes[index]
              run == (-knode.child_index)..(-knode.child_index + knode.num_prims - 1)
          IN /\ knode.child_index <= 0
             /\ \A r \in leaf_reads : r[2] \in run
             /\ {r[2] : r \in TableReads("light_tree_emitters")} = run
             /\ \A r \in TableReads("light_distribution") : r[2] = selected
     ELSE leaf_reads = {}

\* The right leaf of the root: s = 1, k = 1.
C20_Witness ==
  /\ TreeBranch /\ pc = "done" /\ index = 2 /\ selected = 1
  /\ TableReads("light_tree_emitters") = {<<"light_tree_emitters", 1>>}
  /\ TableReads("light_distribution") = {<<"light_distribution", 1>>}

\* The level of node i in the pre-order node table: 0 at the root, one more
\* than its parent's otherwise.
RECURSIVE NodeLevel(_, _)
NodeLevel(nodes, i) ==
  IF i = 0 THEN 0
  ELSE LET parent == CHOOSE j \in 0..(i - 1) :
                       nodes[j].child_index > 0 /\ (j + 1 = i \/ nodes[j].child_index = i)
       IN 1 + NodeLevel(nodes, parent)

\* The depth of the tree: the level of its deepest node.
TreeDepth(nodes) ==
  CHOOSE d \in 0..TableLen(nodes) :
    /\ \A i \in DOMAIN nodes : NodeLevel(nodes, i) <= d
    /\ \E i \in DOMAIN nodes : NodeLevel(nodes, i) = d

\* C21: on a pre-order node table, every iteration of the interior loop moves
\* to a node of a larger index one level down, the current node is always a
\* node of the table at a level within the tree's depth (so the loop has run at
\* most depth-of-tree times), and the loop ends at a leaf, for every random
\* number.
C21_DescentTerminates ==
  /\ [][index' > index
        /\ NodeLevel(kernel_data.light_tree_nodes, index') =
             NodeLevel(kernel_data.light_tree_nodes, index) + 1]_vars
  /\ [](/\ index \in DOMAIN kernel_data.light_tree_nodes
        /\ NodeLevel(kernel_data.light_tree_nodes, index) <=
             TreeDepth(kernel_data.light_tree_nodes))
  /\ <>[]AtLeaf

C21_Witness ==
  /\ AtLeaf
  /\ NodeLevel(kernel_data.light_tree_nodes, index) = MaxDepth
  /\ index = TableLen(kernel_data.light_tree_nodes) - 2

\* C22: a cluster node and an emitter record that hold the same bounding box,
\* cone axis, theta_o, theta_e and energy get the same importance at every P
\* and N.
C22_ClusterEqualsEmitter ==
  pc = "compared" => result.cluster = result.emitter

\* A cone along the z axis turned towards P: the emitter's importance is
\* positive and the cluster's is 0.
C22_Witness ==
  /\ pc = "compared"
  /\ call.bcone_axis = V3(0, 0, -1) /\ call.box.min = V3(0, 0, 2)
  /\ FGt[result.emitter, F(0)] /\ result.cluster = F(0)

\* The divisor of line 71 in the call, and the clamp of the call's box.
CallDistanceSquared == NodeDistanceSquared[call.P, call.box.max, CallCentroid]

CallDistanceClamp == DistanceClamp[call.box.max, CallCentroid]

\* C23: the distance_squared that light_tree_node_importance divides by is
\* never below 0.25 * |bbox_max - centroid|^2, however close P is to the
\* centroid.
C23_DistanceClampedFromBelow ==
  pc = "estimated" => FGe[CallDistanceSquared, CallDistanceClamp]

\* P inside a box and nearer to the centroid than the clamp: the divisor is
\* the squared distance, below the clamp, and the importance returned is the
\* energy divided by it.
C23_Witness ==
  /\ pc = "estimated"
  /\ FLt[len_squared[V3Sub[CallCentroid, call.P]], CallDistanceClamp]
  /\ CallDistanceSquared = len_squared[V3Sub[CallCentroid, call.P]]
  /\ FGt[call.energy, F(0)]
  /\ result = FDiv[call.energy, CallDistanceSquared]
  /\ FGt[result, FDiv[call.energy, CallDistanceClamp]]

\* The first random number split as the interior step splits tree_u.
MixRescaled(b, u, probability) ==
  IF b = "mix_tree" THEN FDiv[u, probability]
  ELSE FDiv[FSub[u, probability], FSub[F(1), probability]]

MixedCall == branch \in {"mix_tree", "mix_distant"} /\ pc # "start"

\* C24: in the mixed branch the random number handed to the chosen sub-sampler
\* is the first random number rescaled: u / p_tree on the tree branch and
\* (u - p_tree) / (1 - p_tree) on the distant branch.
C24_MixRescalesRandu ==
  MixedCall => SubSamplerRandu = MixRescaled(branch, randu, light_tree_probability)

\* The tree is chosen with p_tree = 41/42 and u = 0.5: the sub-sampler is
\* handed 0.5, which is not 0.5 / p_tree, and every value it is handed on this
\* branch lies below p_tree.
C24_Witness ==
  /\ MixedCall /\ branch = "mix_tree" /\ pc = "done"
  /\ light_tree_probability = FDiv[F(41), F(42)]
  /\ randu = Ldexp(1, -1)
  /\ SubSamplerRandu = Ldexp(1, -1)
  /\ FGt[MixRescaled(branch, randu, light_tree_probability), SubSamplerRandu]
  /\ FLt[SubSamplerRandu, light_tree_probability]

\* The history of a pass: the position of its last initialisation, the draws
\* recorded since, and the times it was initialised again.
LastClear ==
  IF \E i \in DOMAIN trace : trace[i].op = "clear"
  THEN CHOOSE i \in DOMAIN trace :
         trace[i].op = "clear" /\ \A j \in DOMAIN trace : trace[j].op = "clear" => j <= i
  ELSE 0

Draws == {i \in DOMAIN trace : i > LastClear /\ trace[i].op = "append_draw"}

Clears == Cardinality({i \in DOMAIN trace : trace[i].op = "clear"})

\* The draws recorded under the same DrawMulti header as draw i, and those
\* among them that use the same batch.
SameHeader(i) == {j \in Draws : trace[j].uuid = trace[i].uuid}

SameBatch(i) == {j \in SameHeader(i) : trace[j].batch = trace[i].batch}

FrontFacing(S) == {j \in S : ~has_inverted_handedness(trace[j].handle)}

RECURSIVE SumInstanceLen(_)
SumInstanceLen(S) ==
  IF S = {} THEN 0
  ELSE LET j == CHOOSE k \in S : TRUE
       IN trace[j].instance_len + SumInstanceLen(S \ {j})

\* The DrawPrototype of draw i and the DrawGroup it names.
Prototype(i) ==
  draw_commands_buf_.prototype_buf_[Cardinality({j \in Draws : j < i})]

GroupOf(i) == draw_commands_buf_.group_buf_[Prototype(i).group_id]

\* The (header, batch) pairs of the draws.
DrawnPairs == {<<trace[i].uuid, trace[i].batch>> : i \in Draws}

\* C25: of the draws recorded under one DrawMulti header, those of one batch
\* share one DrawGroup and those of different batches have different ones; the
\* group's len is the sum of their instance_len and its front_facing_len the
\* sum over the draws of non-inverted handedness; each call has its own
\* DrawPrototype with the group's id, the handle and the instance_len.
C25_GroupPerBatch ==
  pc = "recording" =>
    /\ draw_commands_buf_.prototype_count_ = Cardinality(Draws)
    /\ draw_commands_buf_.group_count_ = Cardinality(DrawnPairs)
    /\ \A i \in Draws :
         /\ Prototype(i).group_id \in 0..(draw_commands_buf_.group_count_ - 1)
         /\ Prototype(i).resource_handle = trace[i].handle.raw
         /\ Prototype(i).instance_len = trace[i].instance_len
         /\ GroupOf(i).gpu_batch = trace[i].batch
         /\ GroupOf(i).len = SumInstanceLen(SameBatch(i))
         /\ GroupOf(i).front_facing_len = SumInstanceLen(FrontFacing(SameBatch(i)))
         /\ \A j \in SameHeader(i) :
              Prototype(j).group_id = Prototype(i).group_id <=> j \in SameBatch(i)

\* After the pass was initialised again a draw is added to the group that the
\* map kept from the recording before: no group is counted and the group's len
\* is above the draw's instance_len.
C25_Witness ==
  /\ pc = "recording" /\ Clears = 1
  /\ Cardinality(Draws) = 1
  /\ draw_commands_buf_.group_count_ = 0
  /\ \A i \in Draws : GroupOf(i).len > trace[i].instance_len

\* The ids of the list that starts at first and follows next, as far as the
\* sentinel or for at most n groups; ended tells that the sentinel was reached.
RECURSIVE GroupList(_, _)
GroupList(first, n) ==
  IF first = NoGroup THEN [ids |-> <<>>, ended |-> TRUE]
  ELSE IF n = 0 \/ first \notin DOMAIN draw_commands_buf_.group_buf_
       THEN [ids |-> <<>>, ended |-> FALSE]
       ELSE LET rest == GroupList(draw_commands_buf_.group_buf_[first].next, n - 1)
            IN [ids |-> <<first>> \o rest.ids, ended |-> rest.ended]

\* The batches of the draws recorded under the header uuid, each at its first
\* draw, the newest first.
RECURSIVE NewestFirst(_, _)
NewestFirst(uuid, i) ==
  IF i = 0 THEN <<>>
  ELSE IF /\ i \in Draws /\ trace[i].uuid = uuid
          /\ \A j \in Draws : (j < i /\ trace[j].uuid = uuid) => trace[j].batch # trace[i].batch
       THEN <<trace[i].batch>> \o NewestFirst(uuid, i - 1)
       ELSE NewestFirst(uuid, i - 1)

DrawMultiCommands == {k \in DOMAIN commands_ : "draw_multi" \in DOMAIN commands_[k]}

\* The list of the DrawMulti command at k.
CommandList(k) ==
  GroupList(commands_[k].draw_multi.group_first, draw_commands_buf_.group_count_)

\* C26: the list that starts at a DrawMulti command's group_first and follows
\* next ends at the sentinel and holds the groups of the command's batches in
\* the reverse of the order in which the groups were created, and the group of
\* each draw of the command is in it.
C26_GroupListNewestFirst ==
  pc = "recording" =>
    \A k \in DrawMultiCommands :
      /\ CommandList(k).ended
      /\ [n \in DOMAIN CommandList(k).ids |->
            draw_commands_buf_.group_buf_[CommandList(k).ids[n]].gpu_batch] =
           NewestFirst(commands_[k].draw_multi.uuid, Len(trace))
      /\ \A i \in Draws :
           trace[i].uuid = commands_[k].draw_multi.uuid =>
             \E n \in DOMAIN CommandList(k).ids : CommandList(k).ids[n] = Prototype(i).group_id

\* After the pass was initialised again a draw is recorded in a group that is
\* in no list: its command's group_first is still the sentinel.
C26_Witness ==
  /\ pc = "recording" /\ Clears = 1
  /\ Cardinality(Draws) = 1
  /\ \A i \in Draws : Prototype(i).group_id \in DOMAIN draw_commands_buf_.group_buf_
  /\ \E k \in DrawMultiCommands : commands_[k].draw_multi.group_first = NoGroup

\* The draw that was recorded first since the pass was last initialised.
FirstDraw == CHOOSE i \in Draws : \A j \in Draws : i <= j

\* C30: after clear() every first draw of a (header, batch) pair creates a
\* group, so that the groups counted are the pairs drawn; the first draw of
\* all creates the group of id 0 with its instance_len as len and links it as
\* the group_first of its command.
C30_ClearStartsEmpty ==
  (pc = "recording" /\ Clears > 0) =>
    /\ draw_commands_buf_.group_count_ = Cardinality(DrawnPairs)
    /\ Cardinality(Draws) = 1 =>
         /\ Prototype(FirstDraw).group_id = 0
         /\ draw_commands_buf_.group_buf_[0].len = trace[FirstDraw].instance_len
         /\ draw_commands_buf_.group_buf_[0].gpu_batch = trace[FirstDraw].batch
         /\ \A k \in DrawMultiCommands : commands_[k].draw_multi.group_first = 0

\* The first draw after clear() finds the id that the map kept for its pair:
\* no group is created, the command's list stays empty and the old group's len
\* grows past the draw's instance_len.
C30_Witness ==
  /\ pc = "recording" /\ Clears = 1
  /\ Cardinality(Draws) = 1
  /\ draw_commands_buf_.group_count_ = 0
  /\ \A k \in DrawMultiCommands : commands_[k].draw_multi.group_first = NoGroup
  /\ draw_commands_buf_.group_ids_[<<trace[FirstDraw].uuid, trace[FirstDraw].batch>>] =
       Prototype(FirstDraw).group_id
  /\ GroupOf(FirstDraw).len = 2 * trace[FirstDraw].instance_len

\* C27: every index with which the distant-light table is read lies in
\* 0 .. num_distant_lights - 1, the read for the tree-or-distant split included.
C27_DistantIndexInRange ==
  pc # "start" =>
    \A r \in TableReads("light_tree_distant_group") : r[2] \in 0..(NumDistantLights - 1)

\* The mixed branch has read the table at num_distant_lights for the split, and
\* the distant sampler has read every light of the table.
C27_Witness ==
  /\ pc = "done" /\ branch = "mix_distant"
  /\ <<"light_tree_distant_group", NumDistantLights>> \in reads
  /\ NumDistantLights \notin DOMAIN kernel_data.light_tree_distant_group
  /\ \A i \in 0..(NumDistantLights - 1) : <<"light_tree_distant_group", i>> \in reads

\* A step with u in [0, 1) at a node of which one child has importance 0 and
\* the other an importance > 0.
StepOneZero ==
  /\ pc = "stepped" /\ InUnitInterval(call.u)
  /\ \/ call.left_importance = F(0) /\ FGt[call.right_importance, F(0)]
     \/ call.right_importance = F(0) /\ FGt[call.left_importance, F(0)]

\* The child the step of StepOneZero must go to: the one of importance > 0.
StepPositiveChild ==
  IF call.left_importance = F(0) THEN call.child_index ELSE call.i + 1

\* The floats a and b are equal or neighbours.
Adjacent(a, b) == a = b \/ (FGt[b, F(0)] /\ a = Below(b)) \/ (FGt[a, F(0)] /\ b = Below(a))

\* C28 as stated: the step never goes to a child of importance 0 whose sibling
\* has an importance > 0, leaves u unchanged and multiplies pdf_factor by 1.
C28_ZeroChildSkippedUnchanged ==
  StepOneZero =>
    /\ result.index = StepPositiveChild
    /\ result.tree_u = call.u
    /\ result.pdf_factor = call.factor

\* C28: the step never goes to a child of importance 0 whose sibling has an
\* importance > 0; pdf_factor is multiplied by exactly 1, and the rescaled u is
\* u or a float next to u and is still in [0, 1).
C28_ZeroChildSkipped ==
  StepOneZero =>
    /\ result.index = StepPositiveChild
    /\ result.pdf_factor = call.factor
    /\ Adjacent(result.tree_u, call.u)
    /\ InUnitInterval(result.tree_u)

\* The left child has importance 5 and the right 0: the step goes left with
\* u = 1 - 2^-24 and rescales it to 1 - 2^-23.
C28_Witness ==
  /\ StepOneZero
  /\ call.left_importance = F(5) /\ call.right_importance = F(0)
  /\ call.u = OneBelow /\ result.index = call.i + 1
  /\ result.tree_u = Below(OneBelow) /\ result.pdf_factor = call.factor

\* The call has returned false for a leaf of total importance 0, for a mesh
\* light left out of the shadow catcher pass, or for a lamp over its bounce budget.
FailedWithoutSample ==
  /\ pc = "done" /\ ~ret
  /\ \/ TreeBranch /\ total_importance = F(0)
     \/ ShadowCatcherCase
     \/ LampSelected /\ external.light_select_reached_max_bounces

\* C29: when light_tree_sample_from_position returns false because of a leaf of
\* importance 0, a shadow catcher exclusion or an exceeded bounce budget, the
\* caller's LightSample is as it was on entry.
C29_FailureLeavesSample == FailedWithoutSample => ls \in CallerSamples

\* The sub-sampler has returned false for a lamp over its bounce budget and has
\* left the sample as it was; the dispatcher has scaled its pdf.
C29_Witness ==
  /\ FailedWithoutSample
  /\ LampSelected /\ external.light_select_reached_max_bounces
  /\ at_return.ls \in CallerSamples
  /\ ls = ScaleSamplePdf(at_return.ls, pdf_factor)
  /\ ls \notin CallerSamples

====
